---- MODULE Spec2Model ----
(***************************************************************************)
(* A model of the mutation engine of LIEF's ELF and PE Binary classes:     *)
(*   src/src/ELF/Binary.cpp   (LIEF::ELF::Binary)                          *)
(*   src/unnamed/part_000     (LIEF::PE::Binary)                           *)
(*                                                                         *)
(* Each public operation of the two classes is one action.  Objects that   *)
(* the C++ code owns through raw pointers get an identity (an id) so that  *)
(* a back-reference to a deleted object is visible in the state.           *)
(*                                                                         *)
(* The module holds several specifications over the same variables:        *)
(*   SpecDyn  the ELF dynamic table (add / remove of DynamicEntry)         *)
(*   SpecSym  ELF dynamic symbols, relocations, symbol versions            *)
(*   SpecPE   PE sections, data directories and optional header            *)
(*   SpecElf  ELF sections, segments, header, program-header relocation    *)
(*   SpecAddr ELF address translation                                      *)
(*   SpecAuth PE authentihash over headers, sections and overlay           *)
(*   SpecShift  ELF shift_dynamic_entries on tables with array entries     *)
(*   SpecBodies PE authentihash: the section bodies                        *)
(*   SpecSeg  ELF remove(Segment) and replace                              *)
(*   SpecVer  ELF dynamic symbols and versions: add, remove, permute       *)
(***************************************************************************)
EXTENDS Integers, Sequences, FiniteSets, TLC

VARIABLES
  dynamic_entries_,        \* ELF Binary::dynamic_entries_ (ordered)
  dynamic_symbols_,        \* ELF Binary::dynamic_symbols_ (ordered, owning)
  relocations_,            \* ELF Binary::relocations_ (ordered, owning)
  symbol_version_table_,   \* ELF Binary::symbol_version_table_ (ordered, owning)
  type_,                   \* ELF Binary::type_ (ELFCLASS32 / ELFCLASS64)
  sections_,               \* ELF Binary::sections_ (ordered, owning)
  segments_,               \* ELF Binary::segments_ (ordered, owning)
  header_,                 \* ELF Binary::header_
  phdr_reloc_info_,        \* ELF Binary::phdr_reloc_info_
  edit_calls_,             \* ELF: the number of extend and remove calls so far
  pe_type_,                \* PE Binary::type_ (PE32 / PE32_PLUS)
  dos_header_,             \* PE Binary::dos_header_ (addressof_new_exeheader)
  pe_header_,              \* PE Binary::header_ (numberof_sections)
  optional_header_,        \* PE Binary::optional_header_
  data_directories_,       \* PE Binary::data_directories_
  pe_sections_,            \* PE Binary::sections_ (ordered, owning)
  available_sections_space_, \* PE Binary::available_sections_space_
  allocated_sections_,     \* PE: the number of Section objects allocated so far
  overlay_,                \* PE Binary::overlay_ (the bytes after the sections)
  overlay_offset_,         \* PE Binary::overlay_offset_
  last_op                  \* the call that produced the current state

symVars == <<dynamic_symbols_, relocations_, symbol_version_table_, type_>>
peVars == <<pe_type_, dos_header_, pe_header_, optional_header_,
            data_directories_, pe_sections_, available_sections_space_,
            allocated_sections_, overlay_, overlay_offset_>>
layoutVars == <<sections_, segments_, header_, phdr_reloc_info_, edit_calls_>>
vars == <<dynamic_entries_, symVars, layoutVars, peVars, last_op>>

\* the section and segment tables are not used by SpecDyn, SpecSym, SpecPE
LayoutIdle ==
  /\ sections_ = <<>>
  /\ segments_ = <<>>
  /\ header_ = <<>>
  /\ phdr_reloc_info_ = [new_offset |-> 0, nb_segments |-> 0]
  /\ edit_calls_ = 0

\* the PE object is not used by the ELF specifications
PeIdle ==
  /\ pe_type_ = "PE32"
  /\ dos_header_ = [addressof_new_exeheader |-> 0]
  /\ pe_header_ = [numberof_sections |-> 0]
  /\ optional_header_ = <<>>
  /\ data_directories_ = <<>>
  /\ pe_sections_ = <<>>
  /\ available_sections_space_ = 0
  /\ allocated_sections_ = 0
  /\ overlay_ = <<>>
  /\ overlay_offset_ = 0

----------------------------------------------------------------------------
(* Generic helpers for std::vector manipulation                            *)

Min(S) == CHOOSE x \in S : \A y \in S : x <= y
Max(S) == CHOOSE x \in S : \A y \in S : x >= y

\* std::find_if: index of the first element satisfying P, Len(s)+1 for end()
FindIf(s, P(_)) ==
  LET I == {i \in 1..Len(s) : P(s[i])}
  IN IF I = {} THEN Len(s) + 1 ELSE Min(I)

\* std::vector::insert(begin()+i-1, e)
InsertAt(s, i, e) == SubSeq(s, 1, i - 1) \o <<e>> \o SubSeq(s, i, Len(s))

\* std::vector::erase(begin()+i-1)
RemoveAt(s, i) == SubSeq(s, 1, i - 1) \o SubSeq(s, i + 1, Len(s))

\* the elements of s satisfying P, in order (erase / remove_if loops)
RECURSIVE FilterSeq(_, _)
FilterSeq(s, keep) ==
  IF s = <<>> THEN <<>>
  ELSE IF Head(s) \in keep THEN <<Head(s)>> \o FilterSeq(Tail(s), keep)
       ELSE FilterSeq(Tail(s), keep)

Range(s) == {s[i] : i \in 1..Len(s)}

\* the record last_op: op is the operation, arg its main argument,
\* err the exception it ended with ("none" when it returned), ret its result
Op(name, arg, err, ret) == [op |-> name, arg |-> arg, err |-> err, ret |-> ret]

----------------------------------------------------------------------------
(* ELF dynamic table: Binary::add(DynamicEntry), remove(...), libraries    *)

MaxDynEntries == 4

DT_NULL == "DT_NULL"
DT_NEEDED == "DT_NEEDED"

\* tags a caller passes in this model
DynTags == {DT_NULL, DT_NEEDED, "DT_SONAME", "DT_PLTRELSZ"}
DynValues == {0, 1}
LibNames == {"liba", "libb"}

DynEntry(tag, value, name) == [tag |-> tag, value |-> value, name |-> name]

\* the entries a caller can construct
DynInputs ==
  {DynEntry(t, v, "") : t \in DynTags \ {DT_NEEDED}, v \in DynValues}
    \cup {DynEntry(DT_NEEDED, 0, n) : n \in LibNames}

\* mutant: the new entry is appended (push_back) instead of being placed
add_place_push_back(entries, tag) == Len(entries) + 1

\* the new entry is placed before the first DT_NULL, whatever its tag
add_place_before_null(entries, tag) ==
  LET P(e) == e.tag = DT_NULL
  IN FindIf(entries, P)

\* Binary::add, the std::find_if choosing the place of the new entry
add_place(entries, tag) ==
  LET P(e) == e.tag = tag \/ e.tag = DT_NULL
  IN FindIf(entries, P)

\* Binary::add(const DynamicEntry&): the table after the call
add_DynamicEntry(entries, entry) ==
  InsertAt(entries, add_place(entries, entry.tag), entry)

\* Binary::has(DYNAMIC_TAGS)
has_tag(entries, tag) == \E i \in 1..Len(entries) : entries[i].tag = tag

\* Binary::get(DYNAMIC_TAGS): index of the first entry of that tag
get_tag(entries, tag) ==
  LET P(e) == e.tag = tag IN FindIf(entries, P)

\* Binary::has_library
has_library(entries, name) ==
  \E i \in 1..Len(entries) : entries[i].tag = DT_NEEDED /\ entries[i].name = name

\* Binary::get_library: index of the first DT_NEEDED entry of that name
get_library(entries, name) ==
  LET P(e) == e.tag = DT_NEEDED /\ e.name = name IN FindIf(entries, P)

\* Binary::remove(DYNAMIC_TAGS): every entry of that tag is erased
remove_tag(entries, tag) ==
  FilterSeq(entries, {e \in Range(entries) : e.tag # tag})

AddDynamicEntry(entry) ==
  /\ Len(dynamic_entries_) < MaxDynEntries
  /\ dynamic_entries_' = add_DynamicEntry(dynamic_entries_, entry)
  /\ last_op' = Op("add", entry.tag, "none", 0)
  /\ UNCHANGED symVars

RemoveDynamicEntry(entry) ==
  LET P(e) == e = entry
      i == FindIf(dynamic_entries_, P)
  IN /\ IF i > Len(dynamic_entries_)
          THEN /\ last_op' = Op("remove", entry.tag, "not_found", 0)
               /\ UNCHANGED dynamic_entries_
          ELSE /\ dynamic_entries_' = RemoveAt(dynamic_entries_, i)
               /\ last_op' = Op("remove", entry.tag, "none", 0)
     /\ UNCHANGED symVars

RemoveDynamicTag(tag) ==
  /\ dynamic_entries_' = remove_tag(dynamic_entries_, tag)
  /\ last_op' = Op("remove_tag", tag, "none", 0)
  /\ UNCHANGED symVars

AddLibrary(name) ==
  /\ Len(dynamic_entries_) < MaxDynEntries
  /\ dynamic_entries_' =
       add_DynamicEntry(dynamic_entries_, DynEntry(DT_NEEDED, 0, name))
  /\ last_op' = Op("add_library", DT_NEEDED, "none", 0)
  /\ UNCHANGED symVars

RemoveLibrary(name) ==
  /\ IF ~has_library(dynamic_entries_, name)
        THEN /\ last_op' = Op("remove_library", DT_NEEDED, "not_found", 0)
             /\ UNCHANGED dynamic_entries_
        ELSE /\ dynamic_entries_' =
                  RemoveAt(dynamic_entries_, get_library(dynamic_entries_, name))
             /\ last_op' = Op("remove_library", DT_NEEDED, "none", 0)
  /\ UNCHANGED symVars

\* dynamic tables a parsed binary starts with: one DT_NULL, at the end
DynInitTables ==
  { <<DynEntry(DT_NULL, 0, "")>>,
    <<DynEntry(DT_NEEDED, 0, "liba"), DynEntry(DT_NULL, 0, "")>>,
    <<DynEntry(DT_NEEDED, 0, "liba"), DynEntry("DT_SONAME", 1, ""),
      DynEntry(DT_NULL, 0, "")>> }

SymIdle ==
  /\ dynamic_symbols_ = <<>>
  /\ relocations_ = <<>>
  /\ symbol_version_table_ = <<>>
  /\ type_ = "ELFCLASS64"

InitDyn ==
  /\ dynamic_entries_ \in DynInitTables
  /\ last_op = Op("load", 0, "none", 0)
  /\ SymIdle
  /\ LayoutIdle
  /\ PeIdle

NextDyn ==
  \/ \E e \in DynInputs : AddDynamicEntry(e) /\ UNCHANGED <<layoutVars, peVars>>
  \/ \E e \in DynInputs : RemoveDynamicEntry(e) /\ UNCHANGED <<layoutVars, peVars>>
  \/ \E t \in DynTags : RemoveDynamicTag(t) /\ UNCHANGED <<layoutVars, peVars>>
  \/ \E n \in LibNames : AddLibrary(n) /\ UNCHANGED <<layoutVars, peVars>>
  \/ \E n \in LibNames : RemoveLibrary(n) /\ UNCHANGED <<layoutVars, peVars>>

SpecDyn == InitDyn /\ [][NextDyn]_vars

\* the table ends with exactly one DT_NULL
NullTerminated(entries) ==
  /\ Len(entries) >= 1
  /\ entries[Len(entries)].tag = DT_NULL
  /\ \A i \in 1..(Len(entries) - 1) : entries[i].tag # DT_NULL

\* C1 (as stated): in every reachable state the dynamic table ends with
\* exactly one DT_NULL entry.  The code lets a caller add an entry of tag
\* DT_NULL and remove the terminator, so this fails.
C1_AlwaysNullTerminated == NullTerminated(dynamic_entries_)

\* C1 (amended): every add / remove / add_library / remove_library call whose
\* entry or tag is not DT_NULL keeps a table that ends with exactly one
\* DT_NULL in that shape.
C1_NullTerminationPreserved ==
  [][(NullTerminated(dynamic_entries_) /\ last_op'.arg # DT_NULL)
       => NullTerminated(dynamic_entries_')]_vars

\* C1 witness: an add of a non-DT_NULL entry has acted on a table that holds
\* other entries, and the table still ends with its single DT_NULL
C1_Witness ==
  /\ last_op.op = "add"
  /\ last_op.arg = "DT_SONAME"
  /\ Len(dynamic_entries_) >= 3
  /\ NullTerminated(dynamic_entries_)

----------------------------------------------------------------------------
(* ELF dynamic symbols, relocations and symbol versions                    *)

MaxSyms == 2
MaxRelocs == 2
MaxTableBytes == 24

\* the symbols a caller passes: <<name, value>>
SymInputs == {<<"foo", 0>>, <<"foo", 1>>, <<"bar", 0>>}
SymNames == {x[1] : x \in SymInputs}

\* a Symbol object: id is its address, ver the SymbolVersion* it holds
\* (0 is nullptr); name and value stand for its contents
Sym(id, name, value, ver) == [id |-> id, name |-> name, value |-> value, ver |-> ver]

\* a Relocation object: its purpose and its Symbol* (0 is nullptr)
Reloc(purpose, sym) == [purpose |-> purpose, sym |-> sym]

\* Symbol::operator== compares contents, not addresses
SymEq(a, b) == a.name = b.name /\ a.value = b.value

LiveSymIds(syms) == {syms[i].id : i \in 1..Len(syms)}
SymById(syms, id) == syms[CHOOSE i \in 1..Len(syms) : syms[i].id = id]

\* relocations whose Symbol* points to a deleted Symbol
DanglingSymIds(relocs, syms) ==
  {relocs[i].sym : i \in 1..Len(relocs)} \ (LiveSymIds(syms) \cup {0})

\* operator new: an address no live object has and no pointer still holds
FreshSymId(relocs, syms) ==
  Min({n \in 1..(Len(relocs) + Len(syms) + 1) :
         n \notin LiveSymIds(syms) /\ n \notin DanglingSymIds(relocs, syms)})

FreshVerId(table, syms) ==
  Min({n \in 1..(Len(table) + Len(syms) + 1) :
         n \notin Range(table) /\ \A i \in 1..Len(syms) : syms[i].ver # n})

\* Binary::has_dynamic_symbol(name)
has_dynamic_symbol(syms, name) == \E i \in 1..Len(syms) : syms[i].name = name

\* Binary::get_dynamic_symbol(name): index of the first symbol of that name
get_dynamic_symbol(syms, name) ==
  LET P(x) == x.name = name IN FindIf(syms, P)

\* sizeof(Elf64_Rela), sizeof(Elf32_Rela), sizeof(Elf64_Rel), sizeof(Elf32_Rel)
SizeofElf64Rela == 24
SizeofElf32Rela == 12
SizeofElf64Rel == 16
SizeofElf32Rel == 8

\* Binary::add_pltgot_relocation: the size of one relocation entry
reloc_size(is_rela, is64) ==
  IF is_rela THEN (IF is64 THEN SizeofElf64Rela ELSE SizeofElf32Rela)
  ELSE (IF is64 THEN SizeofElf64Rel ELSE SizeofElf32Rel)

\* DynamicEntry::value(v) on the entry at index i
set_value(entries, i, v) == [entries EXCEPT ![i].value = v]

\* Binary::add_dynamic_symbol(symbol, version): the symbol table after it
add_dynamic_symbol(syms, relocs, table, name, value) ==
  Append(syms, Sym(FreshSymId(relocs, syms), name, value, FreshVerId(table, syms)))

\* the symbol a new relocation is bound to (the "Add symbol" block of
\* add_dynamic_relocation / add_pltgot_relocation): <<symbols, versions, id>>
bind_symbol(syms, relocs, table, name, value) ==
  IF ~has_dynamic_symbol(syms, name)
    THEN <<add_dynamic_symbol(syms, relocs, table, name, value),
           Append(table, FreshVerId(table, syms)),
           FreshSymId(relocs, syms)>>
    ELSE <<syms, table, syms[get_dynamic_symbol(syms, name)].id>>

\* Binary::add_dynamic_relocation, "Update the Dynamic Section"
dynamic_relocation_sizes(entries, is_rela) ==
  LET tag_sz  == IF is_rela THEN "DT_RELASZ" ELSE "DT_RELSZ"
      tag_ent == IF is_rela THEN "DT_RELAENT" ELSE "DT_RELENT"
  IN IF has_tag(entries, tag_sz) /\ has_tag(entries, tag_ent)
       THEN set_value(entries, get_tag(entries, tag_sz),
                      entries[get_tag(entries, tag_sz)].value
                        + entries[get_tag(entries, tag_ent)].value)
       ELSE entries

\* DT_PLTRELSZ is increased whether the table holds DT_JMPREL or not
pltgot_relocation_sizes_without_jmprel(entries, is_rela, is64) ==
  IF has_tag(entries, "DT_PLTRELSZ")
    THEN set_value(entries, get_tag(entries, "DT_PLTRELSZ"),
                   entries[get_tag(entries, "DT_PLTRELSZ")].value
                     + reloc_size(is_rela, is64))
    ELSE entries

\* Binary::add_pltgot_relocation, "Update the Dynamic Section"
pltgot_relocation_sizes(entries, is_rela, is64) ==
  IF has_tag(entries, "DT_PLTRELSZ") /\ has_tag(entries, "DT_JMPREL")
    THEN set_value(entries, get_tag(entries, "DT_PLTRELSZ"),
                   entries[get_tag(entries, "DT_PLTRELSZ")].value
                     + reloc_size(is_rela, is64))
    ELSE entries

\* DT_PLTRELSZ + DT_RELASZ + DT_RELSZ: the bytes of all relocation tables
RECURSIVE TableBytes(_)
TableBytes(entries) ==
  IF entries = <<>> THEN 0
  ELSE (IF Head(entries).tag \in {"DT_PLTRELSZ", "DT_RELASZ", "DT_RELSZ"}
          THEN Head(entries).value ELSE 0) + TableBytes(Tail(entries))

AddDynamicSymbol(name, value) ==
  /\ Len(dynamic_symbols_) < MaxSyms
  /\ Len(symbol_version_table_) < MaxSyms
  /\ dynamic_symbols_' =
       add_dynamic_symbol(dynamic_symbols_, relocations_, symbol_version_table_, name, value)
  /\ symbol_version_table_' =
       Append(symbol_version_table_, FreshVerId(symbol_version_table_, dynamic_symbols_))
  /\ last_op' = Op("add_dynamic_symbol",
                   [name |-> name, id |-> FreshSymId(relocations_, dynamic_symbols_)],
                   "none", 0)
  /\ UNCHANGED <<dynamic_entries_, relocations_, type_>>

\* add_dynamic_relocation (purpose DYNAMIC) and add_pltgot_relocation
\* (purpose PLTGOT) of a relocation that carries a symbol or none
AddRelocation(purpose, has_symbol, name, value, is_rela) ==
  LET b == bind_symbol(dynamic_symbols_, relocations_, symbol_version_table_, name, value)
  IN /\ Len(relocations_) < MaxRelocs
     /\ TableBytes(dynamic_entries_) + SizeofElf64Rela <= MaxTableBytes
     /\ has_symbol => (has_dynamic_symbol(dynamic_symbols_, name)
                         \/ (Len(dynamic_symbols_) < MaxSyms
                               /\ Len(symbol_version_table_) < MaxSyms))
     /\ IF has_symbol
          THEN /\ dynamic_symbols_' = b[1]
               /\ symbol_version_table_' = b[2]
               /\ relocations_' = Append(relocations_, Reloc(purpose, b[3]))
          ELSE /\ relocations_' = Append(relocations_, Reloc(purpose, 0))
               /\ UNCHANGED <<dynamic_symbols_, symbol_version_table_>>
     /\ dynamic_entries_' =
          IF purpose = "DYNAMIC"
            THEN dynamic_relocation_sizes(dynamic_entries_, is_rela)
            ELSE pltgot_relocation_sizes(dynamic_entries_, is_rela, type_ = "ELFCLASS64")
     /\ last_op' = Op(IF purpose = "DYNAMIC" THEN "add_dynamic_relocation"
                                             ELSE "add_pltgot_relocation",
                      [name |-> IF has_symbol THEN name ELSE "",
                       id |-> IF has_symbol THEN b[3] ELSE 0,
                       rela |-> is_rela],
                      "none", 0)
     /\ UNCHANGED type_

\* the predicate of the two std::find_if of remove_dynamic_symbol: the
\* relocation has the purpose, has a symbol, and *its symbol == *symbol.
\* Reading a deleted Symbol is undefined: the ids in dm compare equal.
reloc_refers(r, purpose, sym, syms, dm) ==
  /\ r.purpose = purpose
  /\ r.sym # 0
  /\ IF r.sym \in LiveSymIds(syms) THEN SymEq(SymById(syms, r.sym), sym)
                                   ELSE r.sym \in dm

\* remove_dynamic_symbol, "Update relocations": std::find_if, then one erase
erase_relocation(relocs, purpose, sym, syms, dm) ==
  LET P(r) == reloc_refers(r, purpose, sym, syms, dm)
      i == FindIf(relocs, P)
  IN IF i > Len(relocs) THEN relocs ELSE RemoveAt(relocs, i)

\* Binary::remove_dynamic_symbol(Symbol*) on the symbol at index k
remove_dynamic_symbol(k, op) ==
  LET sym == dynamic_symbols_[k]
      P(x) == SymEq(sym, x)
      j == FindIf(dynamic_symbols_, P)
      found == sym.ver \in Range(symbol_version_table_)
  IN \E dm \in SUBSET DanglingSymIds(relocations_, dynamic_symbols_) :
       /\ relocations_' =
            erase_relocation(
              erase_relocation(relocations_, "PLTGOT", sym, dynamic_symbols_, dm),
              "DYNAMIC", sym, dynamic_symbols_, dm)
       /\ IF sym.ver = 0
            THEN UNCHANGED symbol_version_table_
            ELSE IF found
              THEN symbol_version_table_' =
                     FilterSeq(symbol_version_table_,
                               Range(symbol_version_table_) \ {sym.ver})
              \* erase(end()) and a second delete: undefined behaviour
              ELSE symbol_version_table_' \in
                     {symbol_version_table_,
                      SubSeq(symbol_version_table_, 1, Len(symbol_version_table_) - 1)}
       /\ dynamic_symbols_' = RemoveAt(dynamic_symbols_, j)
       /\ last_op' = Op(op, [name |-> sym.name, id |-> sym.id],
                        IF sym.ver # 0 /\ ~found THEN "undefined" ELSE "none", 0)
       /\ UNCHANGED <<dynamic_entries_, type_>>

RemoveDynamicSymbol(k) ==
  /\ k \in 1..Len(dynamic_symbols_)
  /\ remove_dynamic_symbol(k, "remove_dynamic_symbol")

\* Binary::remove_dynamic_symbol(const std::string&)
RemoveDynamicSymbolByName(name) ==
  IF ~has_dynamic_symbol(dynamic_symbols_, name)
    THEN /\ last_op' = Op("remove_dynamic_symbol_name",
                          [name |-> name, id |-> 0], "not_found", 0)
         /\ UNCHANGED <<dynamic_entries_, symVars>>
    ELSE remove_dynamic_symbol(get_dynamic_symbol(dynamic_symbols_, name),
                               "remove_dynamic_symbol_name")

\* the dynamic table of a binary without relocations yet
SymInitTable(is64) ==
  << DynEntry("DT_JMPREL", 0, ""), DynEntry("DT_PLTRELSZ", 0, ""),
     DynEntry("DT_RELASZ", 0, ""), DynEntry("DT_RELAENT", reloc_size(TRUE, is64), ""),
     DynEntry("DT_RELSZ", 0, ""), DynEntry("DT_RELENT", reloc_size(FALSE, is64), ""),
     DynEntry(DT_NULL, 0, "") >>

\* a dynamic table that holds DT_PLTRELSZ without DT_JMPREL and DT_RELSZ
\* without DT_RELENT, and whose DT_RELAENT is not the size of an entry
SymOddTable ==
  << DynEntry("DT_PLTRELSZ", 0, ""), DynEntry("DT_RELASZ", 0, ""),
     DynEntry("DT_RELAENT", 4, ""), DynEntry("DT_RELSZ", 0, ""),
     DynEntry(DT_NULL, 0, "") >>

InitSym ==
  /\ type_ \in {"ELFCLASS32", "ELFCLASS64"}
  /\ dynamic_entries_ \in {SymInitTable(type_ = "ELFCLASS64"), SymOddTable}
  /\ dynamic_symbols_ = <<>>
  /\ relocations_ = <<>>
  /\ symbol_version_table_ = <<>>
  /\ last_op = Op("load", 0, "none", 0)
  /\ LayoutIdle
  /\ PeIdle

NextSym ==
  \/ \E x \in SymInputs :
       AddDynamicSymbol(x[1], x[2]) /\ UNCHANGED <<layoutVars, peVars>>
  \/ \E p \in {"DYNAMIC", "PLTGOT"}, x \in SymInputs, a \in BOOLEAN :
       AddRelocation(p, TRUE, x[1], x[2], a) /\ UNCHANGED <<layoutVars, peVars>>
  \/ \E p \in {"DYNAMIC", "PLTGOT"}, a \in BOOLEAN :
       AddRelocation(p, FALSE, "", 0, a) /\ UNCHANGED <<layoutVars, peVars>>
  \/ \E k \in 1..MaxSyms :
       RemoveDynamicSymbol(k) /\ UNCHANGED <<layoutVars, peVars>>
  \/ \E n \in SymNames :
       RemoveDynamicSymbolByName(n) /\ UNCHANGED <<layoutVars, peVars>>

SpecSym == InitSym /\ [][NextSym]_vars

\* C2: every relocation that has a symbol refers to a symbol that is
\* currently an element of the dynamic symbol table (no relocation keeps a
\* pointer to a deleted symbol).
C2_RelocationSymbolsLive ==
  \A i \in 1..Len(relocations_) :
    relocations_[i].sym # 0 => relocations_[i].sym \in LiveSymIds(dynamic_symbols_)

\* C3: after remove_dynamic_symbol(s) has completed, no PLTGOT and no DYNAMIC
\* relocation whose symbol is s remains, however many there were, and the
\* symbol-version record of s is no longer in the symbol-version table.
C3_RemoveDropsAllReferences ==
  [][(/\ last_op'.op \in {"remove_dynamic_symbol", "remove_dynamic_symbol_name"}
      /\ last_op'.err = "none")
       => (/\ \A i \in 1..Len(relocations_') :
                relocations_'[i].purpose \in {"PLTGOT", "DYNAMIC"}
                  => relocations_'[i].sym # last_op'.arg.id
           /\ SymById(dynamic_symbols_, last_op'.arg.id).ver
                \notin Range(symbol_version_table_'))]_vars

\* value of the first entry of the given tag
tag_value(entries, tag) == entries[get_tag(entries, tag)].value

\* C4: removing by name a dynamic symbol that has a PLTGOT relocation (in a
\* binary with DT_JMPREL and DT_PLTRELSZ) leaves no dynamic symbol of that
\* name, leaves no PLTGOT relocation whose symbol is that symbol, and
\* decreases DT_PLTRELSZ by exactly one relocation entry's size.
C4_RemoveByNameUpdatesPltRelSz ==
  [][(/\ last_op'.op = "remove_dynamic_symbol_name"
      /\ last_op'.err = "none"
      /\ has_tag(dynamic_entries_, "DT_PLTRELSZ")
      /\ has_tag(dynamic_entries_, "DT_JMPREL")
      /\ \E i \in 1..Len(relocations_) :
           /\ relocations_[i].purpose = "PLTGOT"
           /\ relocations_[i].sym = last_op'.arg.id)
       => (/\ ~has_dynamic_symbol(dynamic_symbols_', last_op'.arg.name)
           /\ \A i \in 1..Len(relocations_') :
                relocations_'[i].purpose = "PLTGOT"
                  => relocations_'[i].sym # last_op'.arg.id
           /\ has_tag(dynamic_entries_', "DT_PLTRELSZ")
           /\ tag_value(dynamic_entries_, "DT_PLTRELSZ")
                - tag_value(dynamic_entries_', "DT_PLTRELSZ")
                \in {reloc_size(TRUE, type_ = "ELFCLASS64"),
                     reloc_size(FALSE, type_ = "ELFCLASS64")})]_vars

----------------------------------------------------------------------------
(* PE: sections, data directories, optional header                         *)
(* src/unnamed/part_000                                                    *)

\* std::numeric_limits<uint16_t>::max() of add_section, scaled from 65535
\* so that a binary holding the maximum number of sections is reachable
MaxNumberOfSections == 3
MaxPeAllocations == 4

\* the width of uint32_t, scaled from 2^32 to 2^24 so that a wrapped value
\* and the 64-bit sums built from it stay inside the model's integers
UInt32Mod == 16777216
U32(x) == x % UInt32Mod

SizeofPeHeader == 24             \* sizeof(details::pe_header)
SizeofPe32OptionalHeader == 96   \* sizeof(details::pe32_optional_header)
SizeofPe64OptionalHeader == 112  \* sizeof(details::pe64_optional_header)
SizeofPeDataDirectory == 8       \* sizeof(details::pe_data_directory)
SizeofPeSection == 40            \* sizeof(details::pe_section)
DEFAULT_NUMBER_DATA_DIRECTORIES == 15
HeaderRoom == 512                \* the 0x200 of the constructor
DefaultLfanew == 240             \* DosHeader: addressof_new_exeheader 0xF0
DefaultFileAlignment == 512      \* OptionalHeader: file_alignment 0x200
DefaultSectionAlignment == 4096  \* OptionalHeader: section_alignment 0x1000

DataDirectoryTypes ==
  {"EXPORT_TABLE", "IMPORT_TABLE", "RESOURCE_TABLE", "EXCEPTION_TABLE",
   "CERTIFICATE_TABLE", "BASE_RELOCATION_TABLE", "DEBUG", "ARCHITECTURE",
   "GLOBAL_PTR", "TLS_TABLE", "LOAD_CONFIG_TABLE", "BOUND_IMPORT", "IAT",
   "DELAY_IMPORT_DESCRIPTOR", "CLR_RUNTIME_HEADER", "RESERVED"}

PE_SECTION_TYPES == {"TEXT", "DATA", "IMPORT", "RELOCATION", "RESOURCE", "TLS"}

\* LIEF::align
align(value, align_on) ==
  IF align_on > 0 /\ value % align_on > 0
    THEN value + (align_on - (value % align_on))
    ELSE value

\* a PE Section; section_ back-references hold its id, 0 is nullptr
PeSection(id, name, types, offset, size, va, vsize) ==
  [id |-> id, name |-> name, types |-> types, offset |-> offset,
   size |-> size, virtual_address |-> va, virtual_size |-> vsize,
   \* the number of bytes of content(), which add_section pads to
   \* sizeof_raw_data, and of padding()
   content |-> size, padding |-> 0]

\* Section::operator==: the contents are compared, not the addresses
PeSectionEq(a, b) ==
  /\ a.name = b.name /\ a.types = b.types /\ a.offset = b.offset
  /\ a.size = b.size /\ a.virtual_address = b.virtual_address
  /\ a.virtual_size = b.virtual_size

\* the calls of add_section that are tried: a section with a name, a
\* content of content_size bytes, pointerto_raw_data, sizeof_raw_data and
\* virtual_size left at 0 and a virtual_address either left at 0 or chosen
\* by the caller, and the type it is added as
PeSectionInput(name, content_size, va, type) ==
  [name |-> name, content_size |-> content_size, virtual_address |-> va, type |-> type]

PeSectionInputs ==
  { PeSectionInput(".a", 768, 0, "TEXT"),
    PeSectionInput(".a", 768, 0, "IMPORT"),
    PeSectionInput(".b", 256, 4096, "RESOURCE"),
    PeSectionInput(".b", 256, 0, "TLS"),
    PeSectionInput(".b", 256, 0, "DATA"),
    PeSectionInput(".c", 256, 12288, "RELOCATION") }

PeSectionNames == {".a", ".b", ".c", ".none"}

PeSectionIds(sections) == {sections[i].id : i \in 1..Len(sections)}

\* new Section{section}: the objects are numbered in allocation order, so
\* that a deleted section and a later one are told apart
FreshSectionId(allocated) == allocated + 1

sizeof_optional_header(type) ==
  IF type = "PE32" THEN SizeofPe32OptionalHeader ELSE SizeofPe64OptionalHeader

\* Binary::virtual_size
virtual_size(type, dos, opt, sections) ==
  LET hdr == dos.addressof_new_exeheader + SizeofPeHeader + sizeof_optional_header(type)
      size == Max({hdr} \cup {sections[i].virtual_address + sections[i].virtual_size
                                 : i \in 1..Len(sections)})
  IN align(size, opt.section_alignment)

\* sizeof_headers that forgets the section headers
sizeof_headers_no_sections(type, dos, opt, dirs, sections) ==
  align(dos.addressof_new_exeheader + SizeofPeHeader + sizeof_optional_header(type)
          + SizeofPeDataDirectory * Cardinality(DOMAIN dirs),
        opt.file_alignment)

\* Binary::sizeof_headers
sizeof_headers(type, dos, opt, dirs, sections) ==
  U32(align(dos.addressof_new_exeheader + SizeofPeHeader + sizeof_optional_header(type)
              + SizeofPeDataDirectory * Cardinality(DOMAIN dirs)
              + SizeofPeSection * Len(sections),
            opt.file_alignment))

\* Binary::make_space_for_new_section, run once per nested add_section call
\* that finds available_sections_space_ < 0
make_space_for_new_section(sections, opt, rounds) ==
  LET shift == align(SizeofPeSection, opt.file_alignment)
  IN [i \in 1..Len(sections) |->
        [sections[i] EXCEPT !.offset = U32(@ + rounds * shift)]]

\* no section loses the type
remove_type_of_none(sections, type) == sections

\* s->remove_type(type) on the first section that is of the type
remove_type_of_first(sections, type) ==
  LET P(x) == type \in x.types
      i == FindIf(sections, P)
  IN IF i > Len(sections) THEN sections
     ELSE [sections EXCEPT ![i].types = @ \ {type}]

\* the accumulate of add_section over offset + size, then over va + vsize
end_of_raw_data(sections, start) ==
  Max({start} \cup {sections[i].offset + sections[i].size : i \in 1..Len(sections)})

end_of_virtual_data(sections, start) ==
  Max({start} \cup {sections[i].virtual_address + sections[i].virtual_size
                       : i \in 1..Len(sections)})

\* add_section, the section that is built: fields that the caller left at
\* 0 are computed, the others are kept
new_section(type, dos, opt, dirs, sections, section, type_added, allocated) ==
  LET section_size_aligned == U32(align(U32(section.content_size), opt.file_alignment))
      new_section_offset ==
        align(end_of_raw_data(sections, sizeof_headers(type, dos, opt, dirs, sections)),
              opt.file_alignment)
      new_section_va ==
        align(end_of_virtual_data(sections, opt.section_alignment), opt.section_alignment)
  IN PeSection(FreshSectionId(allocated), section.name, {type_added},
               U32(new_section_offset), section_size_aligned,
               IF section.virtual_address = 0 THEN new_section_va
                                              ELSE section.virtual_address,
               U32(section.content_size))

\* add_section, the optional-header fields written for TEXT and DATA
optional_header_for(opt, type, ns) ==
  LET text == IF "TEXT" \in ns.types
                THEN [opt EXCEPT !.baseof_code = U32(ns.virtual_address),
                                 !.sizeof_code = U32(ns.size)]
                ELSE opt
  IN IF "DATA" \in ns.types
       THEN [text EXCEPT !.baseof_data = IF type = "PE32" THEN U32(ns.virtual_address)
                                                          ELSE @,
                         !.sizeof_initialized_data = U32(ns.size)]
       ELSE text

DataDirectory(rva, size, section) == [RVA |-> rva, size |-> size, section_ |-> section]

\* add_section, the data directories written for IMPORT, RELOCATION,
\* RESOURCE and TLS
data_directories_for(dirs, type_added, ns) ==
  IF type_added = "IMPORT"
    THEN [dirs EXCEPT !["IMPORT_TABLE"] =
                        DataDirectory(U32(ns.virtual_address), U32(ns.size), ns.id),
                      !["IAT"] = [@ EXCEPT !.RVA = 0, !.size = 0]]
  ELSE IF type_added = "RELOCATION"
    THEN [dirs EXCEPT !["BASE_RELOCATION_TABLE"] =
                        DataDirectory(U32(ns.virtual_address), ns.virtual_size, ns.id)]
  ELSE IF type_added = "RESOURCE"
    THEN [dirs EXCEPT !["RESOURCE_TABLE"] =
                        DataDirectory(U32(ns.virtual_address), U32(ns.size), ns.id)]
  ELSE IF type_added = "TLS"
    THEN [dirs EXCEPT !["TLS_TABLE"] =
                        DataDirectory(U32(ns.virtual_address), U32(ns.size), ns.id)]
  ELSE dirs

\* Binary::add_section(const Section&, PE_SECTION_TYPES)
\* (the guard bounds the number of sections ever allocated)
AddSection(section, type_added) ==
  LET rounds == IF available_sections_space_ < 0 THEN 0 - available_sections_space_ ELSE 0
      space == available_sections_space_ + rounds
      shifted == make_space_for_new_section(pe_sections_, optional_header_, rounds)
      untyped == remove_type_of_first(shifted, type_added)
      ns == new_section(pe_type_, dos_header_, optional_header_, data_directories_,
                        untyped, section, type_added, allocated_sections_)
      opt == optional_header_for(optional_header_, pe_type_, ns)
      dirs == data_directories_for(data_directories_, type_added, ns)
      pushed == Append(untyped, ns)
  IN /\ allocated_sections_ < MaxPeAllocations
     /\ allocated_sections_' = allocated_sections_ + 1
     /\ data_directories_' = dirs
     /\ IF Len(untyped) >= MaxNumberOfSections
          THEN \* throw pe_error: what was written so far stays
               /\ pe_sections_' = untyped
               /\ optional_header_' = opt
               /\ available_sections_space_' = space
               /\ UNCHANGED pe_header_
               /\ last_op' = Op("add_section", type_added, "pe_error", 0)
          ELSE /\ pe_sections_' = pushed
               /\ available_sections_space_' = space - 1
               /\ pe_header_' = [pe_header_ EXCEPT !.numberof_sections = Len(pushed) % 65536]
               /\ optional_header_' =
                    [opt EXCEPT
                       !.sizeof_image =
                          U32(virtual_size(pe_type_, dos_header_, opt, pushed)),
                       !.sizeof_headers =
                          sizeof_headers(pe_type_, dos_header_, opt, dirs, pushed)]
               /\ last_op' = Op("add_section", type_added, "none", 0)
     /\ UNCHANGED <<pe_type_, dos_header_, overlay_, overlay_offset_>>

\* Binary::remove(const Section&, bool), from the section found at index i
remove_at(i) ==
  LET to_remove == pe_sections_[i]
      previous == pe_sections_[i - 1]
      raw_size_gap == (to_remove.offset + to_remove.size) - (previous.offset + previous.size)
      vsize_size_gap == (to_remove.virtual_address + to_remove.virtual_size)
                          - (previous.virtual_address + previous.virtual_size)
      merged == IF i < Len(pe_sections_) /\ i > 1
                  THEN [pe_sections_ EXCEPT
                          ![i - 1].size = @ + raw_size_gap,
                          ![i - 1].virtual_size = U32(@ + vsize_size_gap)]
                  ELSE pe_sections_
      erased == RemoveAt(merged, i)
  IN /\ pe_sections_' = erased
     /\ pe_header_' = [pe_header_ EXCEPT !.numberof_sections = (@ - 1) % 65536]
     /\ optional_header_' =
          [optional_header_ EXCEPT
             !.sizeof_headers = sizeof_headers(pe_type_, dos_header_, optional_header_,
                                               data_directories_, erased),
             !.sizeof_image = U32(virtual_size(pe_type_, dos_header_,
                                               optional_header_, erased))]
     /\ last_op' = Op("remove", 0, "none", 0)
     /\ UNCHANGED <<pe_type_, dos_header_, data_directories_, available_sections_space_,
                    allocated_sections_, overlay_, overlay_offset_>>

\* Binary::remove(const Section&, bool) of the section at index k
RemoveSection(k) ==
  /\ k \in 1..Len(pe_sections_)
  /\ LET P(x) == PeSectionEq(x, pe_sections_[k])
     IN remove_at(FindIf(pe_sections_, P))

\* Binary::remove_section(const std::string&, bool)
RemoveSectionByName(name) ==
  LET P(x) == x.name = name
      i == FindIf(pe_sections_, P)
  IN IF i > Len(pe_sections_)
       THEN /\ last_op' = Op("remove_section", 0, "none", 0)
            /\ UNCHANGED peVars
       ELSE remove_at(i)

ElfIdle ==
  /\ dynamic_entries_ = <<>>
  /\ SymIdle
  /\ LayoutIdle

\* Binary::Binary(const std::string&, PE_TYPE)
InitPE ==
  /\ pe_type_ \in {"PE32", "PE32_PLUS"}
  /\ dos_header_ = [addressof_new_exeheader |-> DefaultLfanew]
  /\ pe_header_ = [numberof_sections |-> 0]
  /\ pe_sections_ = <<>>
  /\ allocated_sections_ = 0
  /\ overlay_ = <<>>
  /\ overlay_offset_ = 0
  /\ available_sections_space_ =
       (HeaderRoom - (dos_header_.addressof_new_exeheader + SizeofPeHeader
                        + SizeofPeDataDirectory * DEFAULT_NUMBER_DATA_DIRECTORIES
                        + sizeof_optional_header(pe_type_))) \div SizeofPeSection
  /\ data_directories_ = [d \in DataDirectoryTypes |-> DataDirectory(0, 0, 0)]
  /\ LET opt == [file_alignment |-> DefaultFileAlignment,
                 section_alignment |-> DefaultSectionAlignment,
                 sizeof_headers |-> 0, sizeof_image |-> 0, checksum |-> 0,
                 baseof_code |-> 0, sizeof_code |-> 0,
                 baseof_data |-> 0, sizeof_initialized_data |-> 0]
     IN optional_header_ =
          [opt EXCEPT
             !.sizeof_headers = sizeof_headers(pe_type_, dos_header_, opt,
                                               data_directories_, pe_sections_),
             !.sizeof_image = U32(virtual_size(pe_type_, dos_header_, opt, pe_sections_))]
  /\ last_op = Op("new", 0, "none", 0)
  /\ ElfIdle

elfVars == <<dynamic_entries_, symVars, layoutVars>>

NextPE ==
  \/ \E x \in PeSectionInputs : AddSection(x, x.type) /\ UNCHANGED elfVars
  \/ \E k \in 1..MaxNumberOfSections : RemoveSection(k) /\ UNCHANGED elfVars
  \/ \E n \in PeSectionNames : RemoveSectionByName(n) /\ UNCHANGED elfVars

SpecPE == InitPE /\ [][NextPE]_vars

\* max over the sections of virtual_address + virtual_size, 0 without sections
MaxVirtualEnd(sections) ==
  Max({0} \cup {sections[i].virtual_address + sections[i].virtual_size
                   : i \in 1..Len(sections)})

\* C7: PE: after any sequence of add_section and remove(Section) calls,
\* sizeof_image is at least the maximum of virtual_address + virtual_size
\* over the sections, aligned up to section_alignment, and sizeof_headers
\* equals lfanew + sizeof(PE header) + sizeof(optional header) + 16 data
\* directories + one section header per section, aligned up to
\* file_alignment.
C7_SizeCoherence ==
  /\ optional_header_.sizeof_image >=
       align(MaxVirtualEnd(pe_sections_), optional_header_.section_alignment)
  /\ optional_header_.sizeof_headers =
       align(dos_header_.addressof_new_exeheader + SizeofPeHeader
               + sizeof_optional_header(pe_type_) + 16 * SizeofPeDataDirectory
               + Len(pe_sections_) * SizeofPeSection,
             optional_header_.file_alignment)

\* C8: PE: every data directory whose section back-reference is set refers
\* to a section that is an element of sections().
C8_DataDirectorySectionsLive ==
  \A d \in DataDirectoryTypes :
    data_directories_[d].section_ # 0
      => data_directories_[d].section_ \in PeSectionIds(pe_sections_)

\* C9: PE: an add_section that fails with the maximum number of sections
\* reached leaves the sections and their types, the data directories, the
\* optional header, the available-slot count and the section count as they
\* were before the call.
C9_OverflowLeavesNoMutation ==
  [][(last_op'.op = "add_section" /\ last_op'.err = "pe_error")
       => UNCHANGED <<pe_sections_, data_directories_, optional_header_,
                      available_sections_space_, pe_header_>>]_vars

----------------------------------------------------------------------------
(* ELF: sections, segments, header, program-header table relocation        *)
(* src/src/ELF/Binary.cpp                                                  *)

MaxEditCalls == 2

SizeofElf64Phdr == 56            \* sizeof(details::ELF64::Elf_Phdr)
SizeofElf32Phdr == 32            \* sizeof(details::ELF32::Elf_Phdr)
PieShift == 4096                 \* relocate_phdr_table_pie: shift = 0x1000
USER_SEGMENTS == 10              \* relocate_phdr_table_v2
MIN_POTENTIAL_SIZE == 2          \* relocate_phdr_table_v1

\* the width of size_t / uint64_t, scaled from 2^64 to 2^30 so that a
\* wrapped difference stays inside the model's integers
SizeTMod == 1073741824
U64(x) == x % SizeTMod

ElfSection(name, type, offset, size, va, link) ==
  [name |-> name, type |-> type, file_offset |-> offset, size |-> size,
   virtual_address |-> va, link |-> link]

ElfSegment(type, offset, psize, va, vsize) ==
  [type |-> type, file_offset |-> offset, physical_size |-> psize,
   virtual_address |-> va, virtual_size |-> vsize, physical_address |-> va,
   sections |-> <<>>, flags |-> "PF_NONE", alignment |-> 0, content |-> "data"]

\* Segment::sections_, the sections of the segment, by name
SegmentOf(segment, sections) == [segment EXCEPT !.sections = sections]

\* the parts of the Binary that extend and the relocations work on
ElfBinary(sections, segments, header, reloc, entries, symbols, class) ==
  [sections |-> sections, segments |-> segments, header |-> header,
   reloc |-> reloc, entries |-> entries, symbols |-> symbols, class |-> class]

phdr_size(class) == IF class = "ELFCLASS32" THEN SizeofElf32Phdr ELSE SizeofElf64Phdr

\* Binary::shift_sections
shift_sections(sections, from, shift) ==
  [i \in 1..Len(sections) |->
     IF sections[i].file_offset >= from
       THEN [sections[i] EXCEPT
               !.file_offset = @ + shift,
               !.virtual_address = IF @ > 0 THEN @ + shift ELSE @]
       ELSE sections[i]]

\* Binary::shift_segments
shift_segments(segments, from, shift) ==
  [i \in 1..Len(segments) |->
     IF segments[i].file_offset >= from
       THEN [segments[i] EXCEPT !.file_offset = @ + shift,
                                !.virtual_address = @ + shift,
                                !.physical_address = @ + shift]
       ELSE segments[i]]

\* the tags whose value Binary::shift_dynamic_entries moves
ShiftedTags ==
  {"DT_PLTGOT", "DT_HASH", "DT_GNU_HASH", "DT_STRTAB", "DT_SYMTAB", "DT_RELA",
   "DT_REL", "DT_JMPREL", "DT_INIT", "DT_FINI", "DT_VERSYM", "DT_VERDEF",
   "DT_VERNEED", "DT_INIT_ARRAY", "DT_FINI_ARRAY", "DT_PREINIT_ARRAY"}

\* the tags of the entries that are DynamicEntryArray objects
ArrayTags == {"DT_INIT_ARRAY", "DT_FINI_ARRAY", "DT_PREINIT_ARRAY"}

\* a DynamicEntryArray: a dynamic entry with the elements of its array
DynamicEntryArray(tag, value, array) ==
  [tag |-> tag, value |-> value, name |-> "", array |-> array]

\* static_cast<int32_t> and static_cast<int64_t> of a uint64_t
int32_t(x) ==
  LET r == x % UInt32Mod
  IN IF r >= UInt32Mod \div 2 THEN r - UInt32Mod ELSE r

int64_t(x) ==
  LET r == x % SizeTMod
  IN IF r >= SizeTMod \div 2 THEN r - SizeTMod ELSE r

\* the value of every entry of a moved tag is moved, the sign of the
\* elements of an array is not looked at
shift_array_unsigned(array, from, shift, class) ==
  [k \in 1..Len(array) |->
     IF array[k] >= from THEN U64(array[k] + shift) ELSE array[k]]

\* Binary::shift_dynamic_entries, the loop over the array of an entry
shift_array(array, from, shift, class) ==
  [k \in 1..Len(array) |->
     IF /\ array[k] >= from
        /\ \/ class = "ELFCLASS32" /\ int32_t(array[k]) > 0
           \/ class = "ELFCLASS64" /\ int64_t(array[k]) > 0
       THEN U64(array[k] + shift)
       ELSE array[k]]

\* Binary::shift_dynamic_entries
shift_dynamic_entries(entries, from, shift, class) ==
  [i \in 1..Len(entries) |->
     LET entry == entries[i]
         moved == IF entry.value >= from
                    THEN [entry EXCEPT !.value = @ + shift]
                    ELSE entry
     IN IF entry.tag \in ArrayTags
          THEN [moved EXCEPT !.array = shift_array(entry.array, from, shift, class)]
        ELSE IF entry.tag \in ShiftedTags THEN moved
        ELSE entry]

\* the symbols above from are moved, a symbol at from is not
shift_symbols_above(symbols, from, shift) ==
  [i \in 1..Len(symbols) |->
     IF symbols[i].value > from
       THEN [symbols[i] EXCEPT !.value = @ + shift]
       ELSE symbols[i]]

\* Binary::shift_symbols
shift_symbols(symbols, from, shift) ==
  [i \in 1..Len(symbols) |->
     IF symbols[i].value >= from
       THEN [symbols[i] EXCEPT !.value = @ + shift]
       ELSE symbols[i]]

\* "Patch segment size for the segment which contains the new segment"
patch_segment_size(segments, from, shift, grow_virtual) ==
  [i \in 1..Len(segments) |->
     IF segments[i].file_offset + segments[i].physical_size >= from
          /\ from >= segments[i].file_offset
       THEN [segments[i] EXCEPT
               !.virtual_size = IF grow_virtual THEN @ + shift ELSE @,
               !.physical_size = @ + shift]
       ELSE segments[i]]

\* Binary::extend(const Section&, uint64_t) on the section found at index i
extend(b, i, size) ==
  LET section_to_extend == b.sections[i]
      from_offset == section_to_extend.file_offset + section_to_extend.size
      from_address == section_to_extend.virtual_address + section_to_extend.size
      section_loaded == section_to_extend.virtual_address # 0
      shifted == shift_sections(b.sections, from_offset, size)
      segments == patch_segment_size(shift_segments(b.segments, from_offset, size),
                                     from_offset, size, section_loaded)
      header == [b.header EXCEPT
                   !.section_headers_offset = @ + size,
                   !.entrypoint = IF section_loaded /\ @ >= from_address
                                    THEN @ + size ELSE @]
  IN [b EXCEPT
        !.sections = [shifted EXCEPT ![i].size = @ + size],
        !.segments = segments,
        !.header = header,
        !.entries = IF section_loaded
                      THEN shift_dynamic_entries(@, from_address, size, b.class)
                      ELSE @,
        !.symbols = IF section_loaded
                      THEN shift_symbols(@, from_address, size) ELSE @]

\* the result of a strategy: the binary it leaves and the offset returned
Ret(b, offset) == [b |-> b, ret |-> offset]

\* Binary::imagebase
imagebase(segments) ==
  LET L == {i \in 1..Len(segments) : segments[i].type = "PT_LOAD"}
  IN IF L = {} THEN SizeTMod - 1
     ELSE Min({U64(segments[i].virtual_address - segments[i].file_offset) : i \in L})

\* Binary::relocate_phdr_table_pie
relocate_phdr_table_pie(b, class) ==
  IF b.reloc.new_offset > 0 THEN Ret(b, b.reloc.new_offset)
  ELSE
    LET phdr_offset == b.header.program_headers_offset
        from == phdr_offset + phdr_size(class) * Len(b.segments)
        reloc == [new_offset |-> from,
                  nb_segments |-> U64((PieShift \div phdr_size(class))
                                        - b.header.numberof_segments)]
        segments == patch_segment_size(shift_segments(b.segments, from, PieShift),
                                       from, PieShift, TRUE)
    IN Ret([b EXCEPT
              !.reloc = reloc,
              !.header = [@ EXCEPT
                            !.section_headers_offset = @ + PieShift,
                            !.entrypoint = IF @ >= from THEN @ + PieShift ELSE @],
              !.sections = shift_sections(@, from, PieShift),
              !.segments = segments,
              !.entries = shift_dynamic_entries(@, from, PieShift, class),
              !.symbols = shift_symbols(@, from, PieShift)],
           phdr_offset)

\* the PT_LOAD segments of segments_, as indices, in order
load_seg(segments) ==
  LET L == {i \in 1..Len(segments) : segments[i].type = "PT_LOAD"}
      RECURSIVE Sorted(_)
      Sorted(S) == IF S = {} THEN <<>> ELSE <<Min(S)>> \o Sorted(S \ {Min(S)})
  IN Sorted(L)

\* relocate_phdr_table_v1: gap / phdr_size between the load segment at
\* position k of loads and the next one
nb_seg_gap(segments, loads, k, class) ==
  U64(segments[loads[k + 1]].file_offset
        - (segments[loads[k]].file_offset + segments[loads[k]].physical_size))
    \div phdr_size(class)

\* relocate_phdr_table_v1: the update of the PT_PHDR segment
phdr_segment_v1(segments, new_phdr_offset, base) ==
  LET P(x) == x.type = "PT_PHDR"
      i == FindIf(segments, P)
  IN IF i > Len(segments) THEN segments
     ELSE [segments EXCEPT ![i].file_offset = new_phdr_offset,
                           ![i].virtual_address = U64(base + new_phdr_offset),
                           ![i].physical_address = U64(base + new_phdr_offset),
                           ![i].content = "zeros"]

\* Binary::relocate_phdr_table_v1
relocate_phdr_table_v1(b, class) ==
  IF b.reloc.new_offset > 0 THEN Ret(b, b.reloc.new_offset)
  ELSE
    LET loads == load_seg(b.segments)
        nb_loads == Len(loads)
        bss_like(k) == b.segments[loads[k]].virtual_size
                         # b.segments[loads[k]].physical_size
        \* the loop returns 0 when it reaches a last segment that is not skipped
        reaches_last == nb_loads > 0 /\ ~bss_like(nb_loads)
        cand == {k \in 1..(nb_loads - 1) :
                   ~bss_like(k) /\ nb_seg_gap(b.segments, loads, k, class) > 0}
        potential_size == Max({0} \cup {nb_seg_gap(b.segments, loads, k, class) : k \in cand})
        k0 == Min({k \in cand : nb_seg_gap(b.segments, loads, k, class) = potential_size})
        seg_to_extend == loads[k0]
        next_to_extend == loads[k0 + 1]
        new_phdr_offset == b.segments[seg_to_extend].file_offset
                             + b.segments[seg_to_extend].physical_size
        delta == U64(b.segments[next_to_extend].file_offset - new_phdr_offset)
        nb_segments == U64((delta \div phdr_size(class)) - b.header.numberof_segments)
        relocated == [b EXCEPT !.reloc.new_offset = new_phdr_offset,
                               !.header.program_headers_offset = new_phdr_offset]
        extended == [b.segments EXCEPT
                       ![seg_to_extend].physical_size = @ + delta,
                       ![seg_to_extend].virtual_size = @ + delta]
        base == U64(b.segments[seg_to_extend].virtual_address
                      - b.segments[seg_to_extend].file_offset)
    IN IF reaches_last \/ cand = {} THEN Ret(b, 0)
       ELSE IF potential_size < MIN_POTENTIAL_SIZE THEN Ret(b, 0)
       ELSE IF nb_segments < b.header.numberof_segments THEN Ret(relocated, 0)
       ELSE Ret([relocated EXCEPT
                   !.reloc.nb_segments = nb_segments,
                   !.segments = phdr_segment_v1(extended, new_phdr_offset, base)],
                new_phdr_offset)

\* relocate_phdr_table_v2: sections at or after from, SHT_NOBITS excepted
shift_sections_v2(sections, from, shift) ==
  [i \in 1..Len(sections) |->
     IF sections[i].file_offset >= from /\ sections[i].type # "SHT_NOBITS"
       THEN [sections[i] EXCEPT
               !.file_offset = @ + shift,
               !.virtual_address = IF @ > 0 THEN @ + shift ELSE @]
       ELSE sections[i]]

\* the alignment of the segment that relocate_phdr_table_v2 adds
NewSegmentAlignment == 4096

\* the PT_PHDR segment is left as it is
phdr_segment_v2_untouched(segments, new_phdr_offset, new_va) == segments

\* relocate_phdr_table_v2: the update of the PT_PHDR segment
phdr_segment_v2(segments, new_phdr_offset, new_va) ==
  LET P(x) == x.type = "PT_PHDR"
      ip == FindIf(segments, P)
  IN IF ip > Len(segments) THEN segments
     ELSE [segments EXCEPT ![ip].file_offset = new_phdr_offset,
                           ![ip].virtual_address = new_va,
                           ![ip].physical_address = new_va,
                           ![ip].content = "zeros"]

\* Binary::relocate_phdr_table_v2
relocate_phdr_table_v2(b, class) ==
  IF b.reloc.new_offset > 0 THEN Ret(b, b.reloc.new_offset)
  ELSE
    LET loads == {i \in 1..Len(b.segments) : b.segments[i].type = "PT_LOAD"}
        bss == {i \in loads : b.segments[i].physical_size < b.segments[i].virtual_size}
        bss_segment == Max(bss)
        seg == b.segments[bss_segment]
        original_psize == seg.physical_size
        new_phdr_offset == seg.file_offset + seg.virtual_size
        delta_pa == U64(seg.virtual_size - seg.physical_size)
        nb_segments == b.header.numberof_segments + 1 + USER_SEGMENTS
        expanded == [b.segments EXCEPT ![bss_segment].physical_size = seg.virtual_size]
        new_va == U64(imagebase(expanded) + new_phdr_offset)
        new_segment == [ElfSegment("PT_LOAD", new_phdr_offset,
                                   nb_segments * phdr_size(class), new_va,
                                   nb_segments * phdr_size(class))
                          EXCEPT !.flags = "PF_R",
                                 !.alignment = NewSegmentAlignment,
                                 !.content = "empty"]
        \* after the last PT_LOAD segment
        inserted == InsertAt(expanded, Max(loads) + 1, new_segment)
        segments == phdr_segment_v2(inserted, new_phdr_offset, new_va)
        from == seg.file_offset + original_psize
        shift == delta_pa + nb_segments * phdr_size(class)
    IN IF Cardinality(bss) # 1 THEN Ret(b, 0)
       ELSE Ret([b EXCEPT
                   !.reloc = [new_offset |-> new_phdr_offset,
                              nb_segments |-> USER_SEGMENTS],
                   !.header = [@ EXCEPT
                                 !.program_headers_offset = new_phdr_offset,
                                 !.numberof_segments = @ + 1,
                                 !.section_headers_offset = @ + shift],
                   !.segments = segments,
                   !.sections = shift_sections_v2(@, from, shift)],
                new_phdr_offset)

\* one strategy call as recorded in last_op
Tried(strategy, r) == [strategy |-> strategy, ret |-> r.ret]

\* relocate_phdr_table where the two non-PIE strategies are swapped
relocate_phdr_table_v2_first(b, class) ==
  LET pie == relocate_phdr_table_pie(b, class)
      dyn == b.header.file_type = "ET_DYN"
      b1 == IF dyn THEN pie.b ELSE b
      t1 == IF dyn THEN <<Tried("pie", pie)>> ELSE <<>>
      v2 == relocate_phdr_table_v2(b1, class)
      v1 == relocate_phdr_table_v1(v2.b, class)
  IN IF dyn /\ pie.ret # 0
       THEN [b |-> pie.b, ret |-> pie.ret, tried |-> t1]
     ELSE IF v2.ret # 0
       THEN [b |-> v2.b, ret |-> v2.ret, tried |-> t1 \o <<Tried("v2", v2)>>]
     ELSE [b |-> v1.b, ret |-> v1.ret,
           tried |-> t1 \o <<Tried("v2", v2), Tried("v1", v1)>>]

\* Binary::relocate_phdr_table
relocate_phdr_table(b, class) ==
  LET pie == relocate_phdr_table_pie(b, class)
      dyn == b.header.file_type = "ET_DYN"
      b1 == IF dyn THEN pie.b ELSE b
      t1 == IF dyn THEN <<Tried("pie", pie)>> ELSE <<>>
      v1 == relocate_phdr_table_v1(b1, class)
      v2 == relocate_phdr_table_v2(v1.b, class)
  IN IF dyn /\ pie.ret # 0
       THEN [b |-> pie.b, ret |-> pie.ret, tried |-> t1]
     ELSE IF v1.ret # 0
       THEN [b |-> v1.b, ret |-> v1.ret, tried |-> t1 \o <<Tried("v1", v1)>>]
     ELSE [b |-> v2.b, ret |-> v2.ret,
           tried |-> t1 \o <<Tried("v1", v1), Tried("v2", v2)>>]

\* the Binary as the record the operations work on, and back
ThisBinary ==
  ElfBinary(sections_, segments_, header_, phdr_reloc_info_,
            dynamic_entries_, dynamic_symbols_, type_)

Becomes(b) ==
  /\ sections_' = b.sections
  /\ segments_' = b.segments
  /\ header_' = b.header
  /\ phdr_reloc_info_' = b.reloc
  /\ dynamic_entries_' = b.entries
  /\ dynamic_symbols_' = b.symbols

\* Section::operator== (contents)
ElfSectionEq(a, b) == a = b

\* Binary::extend(const Section&, uint64_t) of the section at index k
Extend(k, size) ==
  /\ k \in 1..Len(sections_)
  /\ edit_calls_ < MaxEditCalls
  /\ edit_calls_' = edit_calls_ + 1
  /\ LET P(x) == ElfSectionEq(x, sections_[k])
         i == FindIf(sections_, P)
     IN /\ Becomes(extend(ThisBinary, i, size))
        /\ last_op' = Op("extend", [index |-> i, size |-> size], "none", 0)
  /\ UNCHANGED <<relocations_, symbol_version_table_, type_>>

\* Binary::relocate_phdr_table
RelocatePhdrTable ==
  LET r == relocate_phdr_table(ThisBinary, type_)
  IN /\ Becomes(r.b)
     /\ last_op' = Op("relocate_phdr_table",
                      [tried |-> r.tried, file_type |-> header_.file_type],
                      "none", r.ret)
     /\ UNCHANGED <<relocations_, symbol_version_table_, type_, edit_calls_>>

\* "Remove from segments": the sections of the segment without s, which
\* is computed on a copy of the segment's list
segment_without(segment, s) ==
  SelectSeq(segment.sections, LAMBDA name : name # s.name)

\* "Patch Section link"
patch_section_link(sections, idx) ==
  [j \in 1..Len(sections) |->
     [sections[j] EXCEPT
        !.link = IF @ = idx THEN 0
                 ELSE IF @ > idx THEN @ - 1 ELSE @]]

\* Binary::remove(const Section&, bool) of the section at index k
RemoveElfSection(k) ==
  /\ k \in 1..Len(sections_)
  /\ LET P(x) == ElfSectionEq(x, sections_[k])
         i == FindIf(sections_, P)
         idx == i - 1
         s == sections_[i]
         \* the copies the erase works on, which are dropped
         copies == [j \in 1..Len(segments_) |-> segment_without(segments_[j], s)]
         patched == patch_section_link(sections_, idx)
     IN /\ sections_' = RemoveAt(patched, i)
        /\ header_' = [header_ EXCEPT
                         !.numberof_sections = @ - 1,
                         !.section_name_table_idx = IF idx < @ THEN @ - 1 ELSE @]
        /\ last_op' = Op("remove_section", [index |-> i, size |-> 0], "none", 0)
  /\ edit_calls_ < MaxEditCalls
  /\ edit_calls_' = edit_calls_ + 1
  /\ UNCHANGED <<segments_, phdr_reloc_info_, dynamic_entries_, symVars>>

ElfHeader(file_type, phoff, shoff, entrypoint, nseg, nsec, shstrndx) ==
  [file_type |-> file_type, program_headers_offset |-> phoff,
   section_headers_offset |-> shoff, entrypoint |-> entrypoint,
   numberof_segments |-> nseg, numberof_sections |-> nsec,
   section_name_table_idx |-> shstrndx]

\* the sections of the binaries below: .text, an empty .init, .data, .bss,
\* and .shstrtab, which is not loaded; data is the file offset of .data and
\* base the difference between addresses and file offsets; .init links to
\* the section of index 3 and .shstrtab to the section of index 1
LayoutSections(base, data) ==
  << ElfSection(".text", "SHT_PROGBITS", 256, 256, base + 256, 0),
     ElfSection(".init", "SHT_PROGBITS", data, 0, base + data, 3),
     ElfSection(".data", "SHT_PROGBITS", data, 256, base + data, 0),
     ElfSection(".bss", "SHT_NOBITS", data + 256, 128, base + data + 256, 0),
     ElfSection(".shstrtab", "SHT_STRTAB", data + 256, 64, 0, 1) >>

\* PT_PHDR, a PT_LOAD for the headers and .text, and a bss-like PT_LOAD
\* for .data and .bss at file offset data
LayoutSegments(base, data) ==
  << ElfSegment("PT_PHDR", 64, 168, base + 64, 168),
     SegmentOf(ElfSegment("PT_LOAD", 0, 512, base, 512), << ".text" >>),
     SegmentOf(ElfSegment("PT_LOAD", data, 256, base + data, 384),
               << ".init", ".data", ".bss" >>) >>

ExecBase == 65536

\* the binaries the operations start from
Layouts ==
  { \* a position-independent binary
    [sections |-> LayoutSections(0, 512), segments |-> LayoutSegments(0, 512),
     header |-> ElfHeader("ET_DYN", 64, 832, 256, 3, 5, 4)],
    \* executables with a gap of 512, 256 and 128 bytes before the last,
    \* bss-like, PT_LOAD
    [sections |-> LayoutSections(ExecBase, 1024),
     segments |-> LayoutSegments(ExecBase, 1024),
     header |-> ElfHeader("ET_EXEC", 64, 1344, ExecBase + 256, 3, 5, 4)],
    [sections |-> LayoutSections(ExecBase, 768),
     segments |-> LayoutSegments(ExecBase, 768),
     header |-> ElfHeader("ET_EXEC", 64, 1088, ExecBase + 256, 3, 5, 4)],
    [sections |-> LayoutSections(ExecBase, 640),
     segments |-> LayoutSegments(ExecBase, 640),
     header |-> ElfHeader("ET_EXEC", 64, 960, ExecBase + 256, 3, 5, 4)],
    \* an executable whose bss-like PT_LOAD is followed by another PT_LOAD
    [sections |->
       SubSeq(LayoutSections(ExecBase, 512), 1, 4)
         \o << ElfSection(".rodata", "SHT_PROGBITS", 768, 256, ExecBase + 4864, 0),
               ElfSection(".shstrtab", "SHT_STRTAB", 1024, 64, 0, 1) >>,
     segments |->
       LayoutSegments(ExecBase, 512)
         \o << SegmentOf(ElfSegment("PT_LOAD", 768, 256, ExecBase + 4864, 256),
                         << ".rodata" >>) >>,
     header |-> ElfHeader("ET_EXEC", 64, 1088, ExecBase + 256, 4, 6, 5)],
    \* an executable without a bss-like PT_LOAD, entered at .init
    [sections |->
       SubSeq(LayoutSections(ExecBase, 512), 1, 3)
         \o << ElfSection(".shstrtab", "SHT_STRTAB", 768, 64, 0, 1) >>,
     segments |->
       [LayoutSegments(ExecBase, 512) EXCEPT
          ![3].virtual_size = 256, ![3].sections = << ".init", ".data" >>],
     header |-> ElfHeader("ET_EXEC", 64, 832, ExecBase + 512, 3, 4, 3)] }

InitElf ==
  /\ type_ = "ELFCLASS64"
  /\ \E l \in Layouts :
       /\ sections_ = l.sections
       /\ segments_ = l.segments
       /\ header_ = l.header
       /\ dynamic_entries_ =
            << DynEntry("DT_INIT", l.sections[2].virtual_address, ""),
               DynEntry("DT_STRTAB", l.sections[1].virtual_address, ""),
               DynEntry("DT_PLTRELSZ", 512, ""),
               DynEntry(DT_NULL, 0, "") >>
       /\ dynamic_symbols_ = << Sym(1, "foo", l.sections[3].virtual_address, 0) >>
  /\ phdr_reloc_info_ = [new_offset |-> 0, nb_segments |-> 0]
  /\ edit_calls_ = 0
  /\ relocations_ = <<>>
  /\ symbol_version_table_ = <<>>
  /\ last_op = Op("load", 0, "none", 0)
  /\ PeIdle

ExtendSizes == {16}

MaxLayoutSections == 6

NextElf ==
  \/ \E k \in 1..MaxLayoutSections, n \in ExtendSizes :
       Extend(k, n) /\ UNCHANGED peVars
  \/ \E k \in 1..MaxLayoutSections : RemoveElfSection(k) /\ UNCHANGED peVars
  \/ RelocatePhdrTable /\ UNCHANGED peVars

SpecElf == InitElf /\ [][NextElf]_vars

\* the bytes a section occupies in the file: none for SHT_NOBITS
FileSize(section) == IF section.type = "SHT_NOBITS" THEN 0 ELSE section.size

\* C5: the sections are in non-overlapping ascending order by file offset
\* and, for the loaded ones, by virtual address, after every completed
\* extend, remove and relocate_phdr_table.
C5_SectionsSorted ==
  \A i, j \in 1..Len(sections_) :
    i < j =>
      /\ sections_[i].file_offset + FileSize(sections_[i]) <= sections_[j].file_offset
      /\ (sections_[i].virtual_address # 0 /\ sections_[j].virtual_address # 0)
           => sections_[i].virtual_address + sections_[i].size
                <= sections_[j].virtual_address

\* the section lies, in file range and in virtual range, within the segment
SectionWithin(section, segment) ==
  /\ segment.file_offset <= section.file_offset
  /\ section.file_offset + FileSize(section)
       <= segment.file_offset + segment.physical_size
  /\ segment.virtual_address <= section.virtual_address
  /\ section.virtual_address + section.size
       <= segment.virtual_address + segment.virtual_size

\* C6: every loaded section (virtual_address != 0) lies entirely within
\* some PT_LOAD segment, after any sequence of extend calls and
\* program-header-table relocations.
C6_LoadedSectionsWithinLoad ==
  \A i \in 1..Len(sections_) :
    sections_[i].virtual_address # 0
      => \E k \in 1..Len(segments_) :
           /\ segments_[k].type = "PT_LOAD"
           /\ SectionWithin(sections_[i], segments_[k])

\* the strategies a relocate_phdr_table call ran, in order
StrategiesTried == [i \in 1..Len(last_op.arg.tried) |-> last_op.arg.tried[i].strategy]

\* PIE first and only for ET_DYN, then v1, then v2, each later strategy
\* only after every earlier one returned 0
TriedInOrder ==
  /\ StrategiesTried \in
       (IF last_op.arg.file_type = "ET_DYN"
          THEN {<<"pie">>, <<"pie", "v1">>, <<"pie", "v1", "v2">>}
          ELSE {<<"v1">>, <<"v1", "v2">>})
  /\ \A i \in 1..(Len(last_op.arg.tried) - 1) : last_op.arg.tried[i].ret = 0

NoneSucceeded == \A i \in 1..Len(last_op.arg.tried) : last_op.arg.tried[i].ret = 0

\* C10 as stated: the strategies are tried in the order PIE (ET_DYN only),
\* v1, v2, and when none succeeds the operation fails with NotSupported.
C10_NotSupportedWhenNoneSucceeds ==
  last_op.op = "relocate_phdr_table"
    => /\ TriedInOrder
       /\ NoneSucceeded => last_op.err = "not_supported"

\* C10 as amended: the strategies are tried in the order PIE (ET_DYN
\* only), v1, v2, a later one only when every earlier one returned 0; the
\* call returns what the last strategy it ran returned, it returns 0 only
\* after v2 has run and returned 0, and it raises no error.
C10_TriedInOrderReturnsZero ==
  last_op.op = "relocate_phdr_table"
    => /\ TriedInOrder
       /\ last_op.ret = last_op.arg.tried[Len(last_op.arg.tried)].ret
       /\ last_op.ret = 0 => StrategiesTried[Len(StrategiesTried)] = "v2"
       /\ last_op.err = "none"

\* a call in which v1 and v2 both ran and failed
C10_Witness ==
  /\ last_op.op = "relocate_phdr_table"
  /\ StrategiesTried = <<"v1", "v2">>
  /\ NoneSucceeded
  /\ last_op.ret = 0

\* the strategy that ended the relocate_phdr_table call recorded in op
LastStrategy(op) == op.arg.tried[Len(op.arg.tried)].strategy

\* the place where the strategy inserts bytes into the file (make_hole)
\* and their number; v1 reuses a gap and inserts nothing
inserted_hole(b, strategy, class) ==
  IF strategy = "pie"
    THEN [from |-> b.header.program_headers_offset
                     + phdr_size(class) * Len(b.segments),
          size |-> PieShift]
  ELSE IF strategy = "v2"
    THEN LET bss == {i \in 1..Len(b.segments) :
                       /\ b.segments[i].type = "PT_LOAD"
                       /\ b.segments[i].physical_size < b.segments[i].virtual_size}
             seg == b.segments[Max(bss)]
         IN [from |-> seg.file_offset + seg.physical_size,
             size |-> U64(seg.virtual_size - seg.physical_size)]
  ELSE [from |-> 0, size |-> 0]

\* a step in which relocate_phdr_table moved the table and returned its offset
SuccessfulRelocation ==
  /\ phdr_reloc_info_.new_offset = 0
  /\ last_op'.op = "relocate_phdr_table"
  /\ last_op'.ret # 0

\* C11: after a successful relocation of the program-header table, by
\* whichever strategy, header.program_headers_offset differs from its old
\* value and is the new table position, every PT_PHDR segment points at the
\* new table, and the entrypoint has moved exactly when it was at or after
\* the inserted hole.
C11_RelocationRewritesHeader ==
  [][SuccessfulRelocation =>
       LET hole == inserted_hole(ThisBinary, LastStrategy(last_op'), type_)
       IN /\ header_'.program_headers_offset # header_.program_headers_offset
          /\ header_'.program_headers_offset = phdr_reloc_info_'.new_offset
          /\ \A j \in 1..Len(segments_') :
               segments_'[j].type = "PT_PHDR"
                 => segments_'[j].file_offset = phdr_reloc_info_'.new_offset
          /\ (header_'.entrypoint # header_.entrypoint)
               <=> (hole.size > 0 /\ header_.entrypoint >= hole.from)]_vars

----------------------------------------------------------------------------
\* PE address translation

\* Binary::rva_to_offset
rva_to_offset(sections, opt, RVA) ==
  LET P(section) ==
        LET vsize_adj == Max({section.virtual_size, section.size})
        IN /\ RVA >= section.virtual_address
           /\ RVA < section.virtual_address + vsize_adj
      i == FindIf(sections, P)
      section_alignment == IF opt.section_alignment < DefaultSectionAlignment
                             THEN opt.file_alignment
                             ELSE opt.section_alignment
      section_va == align(sections[i].virtual_address, section_alignment)
      section_offset == align(sections[i].offset, opt.file_alignment)
  IN IF i > Len(sections) THEN RVA
     ELSE U64((RVA - section_va) + section_offset)

\* offset_to_virtual_address that takes no section into account
offset_to_virtual_address_flat(sections, offset, slide) ==
  IF slide > 0 THEN slide + offset ELSE offset

\* Binary::offset_to_virtual_address
offset_to_virtual_address(sections, offset, slide) ==
  LET P(section) == /\ offset >= section.offset
                    /\ offset < section.offset + section.size
      i == FindIf(sections, P)
      base_rva == U64(sections[i].virtual_address - sections[i].offset)
  IN IF i > Len(sections)
       THEN (IF slide > 0 THEN slide + offset ELSE offset)
     ELSE IF slide > 0 THEN U64(slide + base_rva + offset)
     ELSE U64(base_rva + offset)

\* Binary::rva_to_offset(rva)
RvaToOffset(rva) ==
  /\ last_op' = Op("rva_to_offset", rva, "none",
                   rva_to_offset(pe_sections_, optional_header_, rva))
  /\ UNCHANGED peVars

\* Binary::offset_to_virtual_address(offset, slide) on the offset that
\* rva_to_offset has just returned
OffsetToVirtualAddress(slide) ==
  /\ last_op.op = "rva_to_offset"
  /\ last_op' = Op("offset_to_virtual_address",
                   [rva |-> last_op.arg, offset |-> last_op.ret, slide |-> slide],
                   "none",
                   offset_to_virtual_address(pe_sections_, last_op.ret, slide))
  /\ UNCHANGED peVars

\* the section tables of parsed binaries: raw data aligned on 512, virtual
\* addresses on 4096, no two sections overlapping in the file or in memory
PeLayouts ==
  { \* .data has more virtual than raw bytes
    << PeSection(1, ".text", {"TEXT"}, 1024, 512, 4096, 300),
       PeSection(2, ".data", {"DATA"}, 1536, 512, 8192, 1000),
       PeSection(3, ".rsrc", {"RESOURCE"}, 2048, 512, 12288, 512) >>,
    \* every section is backed by raw data over its whole virtual range
    << PeSection(1, ".text", {"TEXT"}, 1024, 1024, 4096, 768),
       PeSection(2, ".rdata", {"DATA"}, 2048, 512, 8192, 512) >>,
    \* the last section has no raw data
    << PeSection(1, ".text", {"TEXT"}, 1024, 512, 4096, 512),
       PeSection(2, ".bss", {}, 1536, 0, 8192, 256) >> }

\* the addresses tried: the ends of each section's raw and virtual ranges
\* and their neighbours
RvaSamples(sections) ==
  {0} \cup UNION { { sections[i].virtual_address,
                     sections[i].virtual_address + 1,
                     sections[i].virtual_address + sections[i].size - 1,
                     sections[i].virtual_address + sections[i].size,
                     sections[i].virtual_address + sections[i].virtual_size - 1,
                     sections[i].virtual_address + sections[i].virtual_size }
                   : i \in 1..Len(sections) }

\* slide: none, or the image base of the binary
Slides == {0, 4194304}

\* a parsed binary
InitAddr ==
  /\ pe_type_ \in {"PE32", "PE32_PLUS"}
  /\ dos_header_ = [addressof_new_exeheader |-> DefaultLfanew]
  /\ pe_sections_ \in PeLayouts
  /\ pe_header_ = [numberof_sections |-> Len(pe_sections_)]
  /\ allocated_sections_ = Len(pe_sections_)
  /\ available_sections_space_ = 0
  /\ overlay_ = <<>>
  /\ overlay_offset_ = 0
  /\ data_directories_ = [d \in DataDirectoryTypes |-> DataDirectory(0, 0, 0)]
  /\ LET opt == [file_alignment |-> DefaultFileAlignment,
                 section_alignment |-> DefaultSectionAlignment,
                 sizeof_headers |-> 0, sizeof_image |-> 0, checksum |-> 0,
                 baseof_code |-> 4096, sizeof_code |-> pe_sections_[1].size,
                 baseof_data |-> 8192,
                 sizeof_initialized_data |-> pe_sections_[2].size]
     IN optional_header_ =
          [opt EXCEPT
             !.sizeof_headers = sizeof_headers(pe_type_, dos_header_, opt,
                                               data_directories_, pe_sections_),
             !.sizeof_image = U32(virtual_size(pe_type_, dos_header_, opt, pe_sections_))]
  /\ last_op = Op("parse", 0, "none", 0)
  /\ ElfIdle

NextAddr ==
  \/ \E rva \in RvaSamples(pe_sections_) : RvaToOffset(rva) /\ UNCHANGED elfVars
  \/ \E slide \in Slides : OffsetToVirtualAddress(slide) /\ UNCHANGED elfVars

SpecAddr == InitAddr /\ [][NextAddr]_vars

\* the address went through rva_to_offset and offset_to_virtual_address
RoundTripDone == last_op.op = "offset_to_virtual_address"

\* C12 as stated: for every section s and every rva with
\* s.virtual_address <= rva < s.virtual_address + s.virtual_size,
\* offset_to_virtual_address(rva_to_offset(rva)) is rva, or rva plus the
\* slide (the image base) when one is passed.
C12_RoundTripWholeVirtualRange ==
  RoundTripDone =>
    \A i \in 1..Len(pe_sections_) :
      (/\ pe_sections_[i].virtual_address <= last_op.arg.rva
       /\ last_op.arg.rva < pe_sections_[i].virtual_address
                              + pe_sections_[i].virtual_size)
        => last_op.ret = last_op.arg.rva + last_op.arg.slide

\* C12 as amended: the round trip holds for the rva of a section that are
\* backed by raw data, s.virtual_address <= rva < s.virtual_address +
\* min(s.virtual_size, s.sizeof_raw_data).
C12_RoundTripWithinRawData ==
  RoundTripDone =>
    \A i \in 1..Len(pe_sections_) :
      (/\ pe_sections_[i].virtual_address <= last_op.arg.rva
       /\ last_op.arg.rva < pe_sections_[i].virtual_address
                              + Min({pe_sections_[i].virtual_size,
                                     pe_sections_[i].size}))
        => last_op.ret = last_op.arg.rva + last_op.arg.slide

\* the last raw-backed byte of a section that has more virtual than raw
\* bytes went through the round trip, with a slide
C12_Witness ==
  /\ RoundTripDone
  /\ last_op.arg.slide > 0
  /\ \E i \in 1..Len(pe_sections_) :
       /\ pe_sections_[i].size < pe_sections_[i].virtual_size
       /\ pe_sections_[i].size > 0
       /\ last_op.arg.rva = pe_sections_[i].virtual_address + pe_sections_[i].size - 1
       /\ last_op.ret = last_op.arg.rva + last_op.arg.slide

----------------------------------------------------------------------------
\* PE authentihash

MaxOverlay == 3

\* data_directories_ in the order of the table
DataDirectoryOrder ==
  << "EXPORT_TABLE", "IMPORT_TABLE", "RESOURCE_TABLE", "EXCEPTION_TABLE",
     "CERTIFICATE_TABLE", "BASE_RELOCATION_TABLE", "DEBUG", "ARCHITECTURE",
     "GLOBAL_PTR", "TLS_TABLE", "LOAD_CONFIG_TABLE", "BOUND_IMPORT", "IAT",
     "DELAY_IMPORT_DESCRIPTOR", "CLR_RUNTIME_HEADER", "RESERVED" >>

RECURSIVE Flatten(_)
Flatten(ss) == IF ss = <<>> THEN <<>> ELSE Head(ss) \o Flatten(Tail(ss))

\* authentihash: the certificate range lies within the overlay
cert_range_in_overlay(cert_dir, overlay, overlay_offset) ==
  /\ cert_dir.RVA > 0
  /\ cert_dir.size > 0
  /\ cert_dir.RVA >= overlay_offset
  /\ (cert_dir.RVA - overlay_offset) + cert_dir.size <= Len(overlay)

\* authentihash: what is written for the overlay
authentihash_overlay(cert_dir, overlay, overlay_offset) ==
  LET start_cert_offset == cert_dir.RVA - overlay_offset
      end_cert_offset == start_cert_offset + cert_dir.size
  IN IF overlay = <<>> THEN <<>>
     ELSE IF cert_range_in_overlay(cert_dir, overlay, overlay_offset)
       THEN SubSeq(overlay, 1, start_cert_offset)
              \o SubSeq(overlay, end_cert_offset + 1, Len(overlay))
     ELSE overlay

\* authentihash: what is written for the headers, the data directories and
\* the section table (the fields the model holds)
authentihash_headers(type, dos, hdr, opt, dirs, sections) ==
  << dos.addressof_new_exeheader, hdr.numberof_sections,
     opt.sizeof_code, opt.sizeof_initialized_data, opt.baseof_code >>
    \o (IF type = "PE32" THEN << opt.baseof_data >> ELSE <<>>)
    \o << opt.section_alignment, opt.file_alignment,
          opt.sizeof_image, opt.sizeof_headers >>
    \o Flatten([i \in 1..Len(DataDirectoryOrder) |->
                  IF DataDirectoryOrder[i] = "CERTIFICATE_TABLE" THEN <<>>
                  ELSE << dirs[DataDirectoryOrder[i]].RVA,
                          dirs[DataDirectoryOrder[i]].size >>])
    \o Flatten([i \in 1..Len(sections) |->
                  << sections[i].name, sections[i].virtual_size,
                     sections[i].virtual_address, sections[i].size,
                     sections[i].offset >>])

\* std::sort by pointerto_raw_data: the indices of sections in ascending
\* order of offset; sections of equal offset, which std::sort may put in
\* either order, are taken in the order of the table
RECURSIVE sort_by_offset(_, _)
sort_by_offset(sections, todo) ==
  IF todo = {} THEN <<>>
  ELSE LET first == CHOOSE i \in todo :
                      \A j \in todo :
                        \/ sections[i].offset < sections[j].offset
                        \/ sections[i].offset = sections[j].offset /\ i <= j
       IN << first >> \o sort_by_offset(sections, todo \ {first})

\* the bytes of the file from offset from up to, not including, offset to
Chunk(from, to) == [from |-> from, to |-> to]

\* authentihash: the loop over the sorted sections, from the section at
\* position k of order on; what is written is given as chunks of the file
RECURSIVE authentihash_bodies(_, _, _)
authentihash_bodies(sections, order, position) ==
  IF order = <<>> THEN <<>>
  ELSE LET sec == sections[Head(order)]
           end == sec.offset + sec.content + sec.padding
       IN IF sec.size = 0
            THEN authentihash_bodies(sections, Tail(order), position)
          ELSE (IF sec.offset < position
                  THEN (IF position <= sec.offset + sec.content
                          THEN << Chunk(position, end) >>
                          ELSE <<>>)
                  ELSE << Chunk(sec.offset, end) >>)
                 \o authentihash_bodies(sections, Tail(order), end)

\* authentihash: what is written for the section bodies
authentihash_sections(sections) ==
  authentihash_bodies(sections, sort_by_offset(sections, 1..Len(sections)), 0)

\* the stream with the checksum of the optional header in it
authentihash_with_checksum(type, dos, hdr, opt, dirs, sections, overlay, overlay_offset) ==
  authentihash_headers(type, dos, hdr, opt, dirs, sections)
    \o << opt.checksum >>
    \o authentihash_sections(sections)
    \o authentihash_overlay(dirs["CERTIFICATE_TABLE"], overlay, overlay_offset)

\* Binary::authentihash: the bytes given to the hash
authentihash(type, dos, hdr, opt, dirs, sections, overlay, overlay_offset) ==
  authentihash_headers(type, dos, hdr, opt, dirs, sections)
    \o authentihash_sections(sections)
    \o authentihash_overlay(dirs["CERTIFICATE_TABLE"], overlay, overlay_offset)

\* optional_header().checksum(v)
SetChecksum(v) ==
  /\ optional_header_' = [optional_header_ EXCEPT !.checksum = v]
  /\ last_op' = Op("checksum", v, "none", 0)
  /\ UNCHANGED <<pe_type_, dos_header_, pe_header_, data_directories_, pe_sections_,
                 available_sections_space_, allocated_sections_, overlay_,
                 overlay_offset_>>

\* data_directory(CERTIFICATE_TABLE).RVA(rva) and .size(size)
SetCertificateTable(rva, size) ==
  /\ data_directories_' =
       [data_directories_ EXCEPT !["CERTIFICATE_TABLE"] =
          [@ EXCEPT !.RVA = rva, !.size = size]]
  /\ last_op' = Op("certificate_table", [RVA |-> rva, size |-> size], "none", 0)
  /\ UNCHANGED <<pe_type_, dos_header_, pe_header_, optional_header_, pe_sections_,
                 available_sections_space_, allocated_sections_, overlay_,
                 overlay_offset_>>

\* overlay()[i - 1] = v
SetOverlayByte(i, v) ==
  /\ i \in 1..Len(overlay_)
  /\ overlay_' = [overlay_ EXCEPT ![i] = v]
  /\ last_op' = Op("overlay", [index |-> i, byte |-> v], "none", 0)
  /\ UNCHANGED <<pe_type_, dos_header_, pe_header_, optional_header_,
                 data_directories_, pe_sections_, available_sections_space_,
                 allocated_sections_, overlay_offset_>>

\* a parsed binary, without or with an overlay after its last section
InitAuth ==
  /\ pe_type_ \in {"PE32", "PE32_PLUS"}
  /\ dos_header_ = [addressof_new_exeheader |-> DefaultLfanew]
  /\ pe_sections_ \in PeLayouts
  /\ pe_header_ = [numberof_sections |-> Len(pe_sections_)]
  /\ allocated_sections_ = Len(pe_sections_)
  /\ available_sections_space_ = 0
  /\ overlay_ \in {<<>>, [i \in 1..MaxOverlay |-> 0]}
  /\ overlay_offset_ = end_of_raw_data(pe_sections_, 0)
  /\ data_directories_ = [d \in DataDirectoryTypes |-> DataDirectory(0, 0, 0)]
  /\ LET opt == [file_alignment |-> DefaultFileAlignment,
                 section_alignment |-> DefaultSectionAlignment,
                 sizeof_headers |-> 0, sizeof_image |-> 0, checksum |-> 0,
                 baseof_code |-> 4096, sizeof_code |-> pe_sections_[1].size,
                 baseof_data |-> 8192,
                 sizeof_initialized_data |-> pe_sections_[2].size]
     IN optional_header_ =
          [opt EXCEPT
             !.sizeof_headers = sizeof_headers(pe_type_, dos_header_, opt,
                                               data_directories_, pe_sections_),
             !.sizeof_image = U32(virtual_size(pe_type_, dos_header_, opt, pe_sections_))]
  /\ last_op = Op("parse", 0, "none", 0)
  /\ ElfIdle

\* the certificate tables tried: none, at the start of the overlay, inside
\* it, and before it
CertRvas == {0, overlay_offset_ - 1, overlay_offset_, overlay_offset_ + 1}
CertSizes == {0, 1, MaxOverlay}

NextAuth ==
  \/ \E v \in {0, 1} : SetChecksum(v) /\ UNCHANGED elfVars
  \/ \E rva \in CertRvas, size \in CertSizes :
       SetCertificateTable(rva, size) /\ UNCHANGED elfVars
  \/ \E i \in 1..MaxOverlay, v \in {0, 1} : SetOverlayByte(i, v) /\ UNCHANGED elfVars

SpecAuth == InitAuth /\ [][NextAuth]_vars

\* the authentihash stream of the binary
Authentihash ==
  authentihash(pe_type_, dos_header_, pe_header_, optional_header_,
               data_directories_, pe_sections_, overlay_, overlay_offset_)

\* the overlay byte at index i lies in the range of the certificate table
InCertificateRange(i, cert_dir) ==
  /\ cert_dir.RVA <= overlay_offset_ + (i - 1)
  /\ overlay_offset_ + (i - 1) < cert_dir.RVA + cert_dir.size

CertificateTable == data_directories_["CERTIFICATE_TABLE"]

\* C13 as stated: two binaries that differ only in the checksum of the
\* optional header, or only in the CERTIFICATE_TABLE data directory, or
\* only in an overlay byte inside the certificate range, have the same
\* authentihash stream.
C13_AuthentihashInvariant ==
  [][(\/ last_op'.op = "checksum"
      \/ last_op'.op = "certificate_table"
      \/ /\ last_op'.op = "overlay"
         /\ InCertificateRange(last_op'.arg.index, CertificateTable))
       => Authentihash' = Authentihash]_vars

\* C13 as amended: the same, where the CERTIFICATE_TABLE directory may
\* differ only when the overlay is empty or neither directory designates a
\* range within the overlay, and the overlay byte lies in a certificate
\* range that is within the overlay.
C13_AuthentihashInvariantWithinOverlay ==
  [][(\/ last_op'.op = "checksum"
      \/ /\ last_op'.op = "certificate_table"
         /\ \/ overlay_ = <<>>
            \/ /\ ~cert_range_in_overlay(CertificateTable, overlay_, overlay_offset_)
               /\ ~cert_range_in_overlay(CertificateTable', overlay_, overlay_offset_)
      \/ /\ last_op'.op = "overlay"
         /\ InCertificateRange(last_op'.arg.index, CertificateTable)
         /\ cert_range_in_overlay(CertificateTable, overlay_, overlay_offset_))
       => Authentihash' = Authentihash]_vars

\* an overlay byte inside a certificate range within the overlay has been
\* set to 1, in a binary whose checksum has been changed too
C13_Witness ==
  /\ last_op.op = "overlay"
  /\ InCertificateRange(last_op.arg.index, CertificateTable)
  /\ cert_range_in_overlay(CertificateTable, overlay_, overlay_offset_)
  /\ overlay_[last_op.arg.index] = 1
  /\ optional_header_.checksum = 1

----------------------------------------------------------------------------
\* PE add_section: sizes and types

\* a step in which add_section(section, type) returned the new section
SectionAdded(type) ==
  /\ last_op'.op = "add_section"
  /\ last_op'.arg = type
  /\ last_op'.err = "none"
  /\ allocated_sections_' = allocated_sections_ + 1

\* the section that add_section has pushed
AddedSection == pe_sections_'[Len(pe_sections_')]

\* C14: adding a section of type DATA whose content is n bytes increases
\* optional_header.sizeof_image by align(n, section_alignment), increases
\* optional_header.sizeof_initialized_data by align(n, file_alignment)
\* relative to its value before the call, and increments the section count
\* by one.
C14_DataSectionGrowsSizes ==
  [][SectionAdded("DATA") =>
       LET n == AddedSection.virtual_size
       IN /\ optional_header_'.sizeof_image =
               U32(optional_header_.sizeof_image
                     + align(n, optional_header_.section_alignment))
          /\ optional_header_'.sizeof_initialized_data =
               U32(optional_header_.sizeof_initialized_data
                     + align(n, optional_header_.file_alignment))
          /\ pe_header_'.numberof_sections = pe_header_.numberof_sections + 1
          /\ Len(pe_sections_') = Len(pe_sections_) + 1]_vars

----------------------------------------------------------------------------
\* ELF add(DynamicEntry): the place of the new entry

\* the index of the first entry with that tag, Len(entries) + 1 without one
FirstWithTag(entries, tag) ==
  LET P(e) == e.tag = tag
  IN FindIf(entries, P)

\* the entries of equal tag are next to each other
TagsContiguous(entries) ==
  \A i, j, k \in 1..Len(entries) :
    (i < j /\ j < k /\ entries[i].tag = entries[k].tag)
      => entries[j].tag = entries[i].tag

\* entry e has been inserted into old at index p, giving new
InsertedAt(old, new, p, tag) ==
  /\ p \in 1..Len(new)
  /\ Len(new) = Len(old) + 1
  /\ new[p].tag = tag
  /\ RemoveAt(new, p) = old

\* C15: add(DynamicEntry e) inserts the copy of e immediately before the
\* first existing entry whose tag equals e's tag or, when no entry has that
\* tag, immediately before the terminating DT_NULL; all pre-existing entries
\* keep their relative order, and a table in which entries of equal tag are
\* contiguous remains so after the insertion.
C15_AddBeforeFirstEqualTagOrNull ==
  [][last_op'.op = "add" =>
       LET tag == last_op'.arg
           old == dynamic_entries_
           new == dynamic_entries_'
           same == FirstWithTag(old, tag)
           null == FirstWithTag(old, DT_NULL)
       IN /\ same <= Len(old) => InsertedAt(old, new, same, tag)
          /\ (same > Len(old) /\ null <= Len(old))
               => /\ InsertedAt(old, new, null, tag)
                  /\ new[null + 1].tag = DT_NULL
          /\ \E p \in 1..Len(new) : InsertedAt(old, new, p, tag)
          /\ TagsContiguous(old) => TagsContiguous(new)]_vars

\* an entry has been added before the entries of its tag, themselves
\* followed by another entry and the DT_NULL
C15_Witness ==
  /\ last_op.op = "add"
  /\ last_op.arg = DT_NEEDED
  /\ Len(dynamic_entries_) = 4
  /\ dynamic_entries_[1].tag = DT_NEEDED
  /\ dynamic_entries_[1].name = "libb"
  /\ dynamic_entries_[2].tag = DT_NEEDED
  /\ dynamic_entries_[2].name = "liba"
  /\ dynamic_entries_[3].tag = "DT_SONAME"
  /\ dynamic_entries_[4].tag = DT_NULL

----------------------------------------------------------------------------
\* ELF add_dynamic_relocation / add_pltgot_relocation: the size entries

\* entries with the value of the first entry of that tag increased by n
WithSizeIncreased(entries, tag, n) ==
  IF has_tag(entries, tag)
    THEN set_value(entries, get_tag(entries, tag), tag_value(entries, tag) + n)
    ELSE entries

\* the size entry a relocation added by the call in op belongs to
SizeTagOf(op) ==
  IF op.op = "add_pltgot_relocation" THEN "DT_PLTRELSZ"
  ELSE IF op.arg.rela THEN "DT_RELASZ" ELSE "DT_RELSZ"

RelocationAdded ==
  last_op'.op \in {"add_dynamic_relocation", "add_pltgot_relocation"}

\* C16 as stated: adding a relocation increases the matching size entry
\* (DT_RELSZ or DT_RELASZ for add_dynamic_relocation, DT_PLTRELSZ for
\* add_pltgot_relocation) by the size of one relocation entry, 8, 12, 16 or
\* 24, and no other dynamic entry value changes.
C16_RelocationGrowsSizeEntry ==
  [][RelocationAdded =>
       dynamic_entries_' =
         WithSizeIncreased(dynamic_entries_, SizeTagOf(last_op'),
                           reloc_size(last_op'.arg.rela, type_ = "ELFCLASS64"))]_vars

\* C16 as amended: add_dynamic_relocation increases DT_RELSZ / DT_RELASZ by
\* the value of DT_RELENT / DT_RELAENT when the table holds both, and
\* add_pltgot_relocation increases DT_PLTRELSZ by the size of one entry when
\* the table holds DT_PLTRELSZ and DT_JMPREL; otherwise, and for every
\* other entry, no value changes.
C16_RelocationGrowsPairedSizeEntry ==
  [][RelocationAdded =>
       LET tag == SizeTagOf(last_op')
           ent == IF last_op'.arg.rela THEN "DT_RELAENT" ELSE "DT_RELENT"
           n == IF last_op'.op = "add_pltgot_relocation"
                  THEN (IF has_tag(dynamic_entries_, "DT_JMPREL")
                          THEN reloc_size(last_op'.arg.rela, type_ = "ELFCLASS64")
                          ELSE 0)
                ELSE (IF has_tag(dynamic_entries_, ent)
                        THEN tag_value(dynamic_entries_, ent) ELSE 0)
       IN dynamic_entries_' = WithSizeIncreased(dynamic_entries_, tag, n)]_vars

\* a RELA relocation has been added to the dynamic relocations of an ELF64
\* whose table holds DT_RELASZ and DT_RELAENT: DT_RELASZ is 24
C16_Witness ==
  /\ last_op.op = "add_dynamic_relocation"
  /\ last_op.arg.rela
  /\ type_ = "ELFCLASS64"
  /\ has_tag(dynamic_entries_, "DT_RELASZ")
  /\ has_tag(dynamic_entries_, "DT_RELAENT")
  /\ tag_value(dynamic_entries_, "DT_RELASZ") = SizeofElf64Rela
  /\ Len(relocations_) = 1

----------------------------------------------------------------------------
\* PE add_section: the holder of a section type

\* the indices of the sections that are of the type
Holders(sections, type) == {i \in 1..Len(sections) : type \in sections[i].types}

----------------------------------------------------------------------------
\* ELF extend(section, size): what moves and what grows

\* a step of extend
Extended == last_op'.op = "extend"

\* the section extend was called on, as it was before the call
ExtendedSection == sections_[last_op'.arg.index]

\* the file range of the section lies within the file range of the segment
FileWithin(section, segment) ==
  /\ segment.file_offset <= section.file_offset
  /\ section.file_offset + FileSize(section)
       <= segment.file_offset + segment.physical_size

\* C18: extend(section, size), with from = section.offset + section.size
\* taken before the call: every section and every segment whose
\* file_offset was >= from has its file_offset increased by size and every
\* other one keeps its file_offset; the LOAD segment containing the section
\* has physical_size increased by size, and virtual_size too when the
\* section is loaded; the section's size is increased by size.
C18_ExtendShiftsAndGrows ==
  [][Extended =>
       LET size == last_op'.arg.size
           from == ExtendedSection.file_offset + ExtendedSection.size
           loaded == ExtendedSection.virtual_address # 0
       IN /\ Len(sections_') = Len(sections_)
          /\ Len(segments_') = Len(segments_)
          /\ \A j \in 1..Len(sections_) :
               sections_'[j].file_offset =
                 IF sections_[j].file_offset >= from
                   THEN sections_[j].file_offset + size
                   ELSE sections_[j].file_offset
          /\ \A k \in 1..Len(segments_) :
               segments_'[k].file_offset =
                 IF segments_[k].file_offset >= from
                   THEN segments_[k].file_offset + size
                   ELSE segments_[k].file_offset
          /\ \A k \in 1..Len(segments_) :
               (segments_[k].type = "PT_LOAD"
                  /\ FileWithin(ExtendedSection, segments_[k]))
                 => /\ segments_'[k].physical_size = segments_[k].physical_size + size
                    /\ segments_'[k].virtual_size =
                         segments_[k].virtual_size + (IF loaded THEN size ELSE 0)
          /\ sections_'[last_op'.arg.index].size = ExtendedSection.size + size]_vars

\* the dynamic entry holds an address (the size entries that the data model
\* lists with them, DT_PLTRELSZ and the like, hold no address: C21)
AddressValued(entry) == entry.tag \in ShiftedTags

RemovedSection == last_op'.op = "remove_section"

\* C20: remove(section) of the section at index idx: afterwards no
\* segment's section list contains the removed section; every remaining
\* section whose link equalled idx has link 0 and every one whose link was
\* greater than idx has its link decreased by one, the others keeping
\* their link; header.numberof_sections is decreased by one;
\* header.section_name_table_idx is decreased by one if and only if it was
\* greater than idx.
C20_RemoveDetachesAndPatches ==
  [][RemovedSection =>
       LET i == last_op'.arg.index
           idx == i - 1
           removed == sections_[i]
           before(j) == sections_[IF j < i THEN j ELSE j + 1]
       IN /\ \A g \in 1..Len(segments_') :
               \A n \in 1..Len(segments_'[g].sections) :
                 segments_'[g].sections[n] # removed.name
          /\ Len(sections_') = Len(sections_) - 1
          /\ \A j \in 1..Len(sections_') :
               sections_'[j].link =
                 IF before(j).link = idx THEN 0
                 ELSE IF before(j).link > idx THEN before(j).link - 1
                 ELSE before(j).link
          /\ header_'.numberof_sections = header_.numberof_sections - 1
          /\ header_'.section_name_table_idx =
               IF header_.section_name_table_idx > idx
                 THEN header_.section_name_table_idx - 1
                 ELSE header_.section_name_table_idx]_vars

----------------------------------------------------------------------------
(* ELF Binary::shift_dynamic_entries on tables with array entries          *)

\* the elements of the arrays below: an address, 0, the sentinel -1 of a
\* 64-bit and of a 32-bit table, and an address whose bit 31 is set
MinusOne64 == SizeTMod - 1
MinusOne32 == UInt32Mod - 1
HighAddress32 == (UInt32Mod \div 2) + 512

\* the entries of the tables shift_dynamic_entries is applied to
ShiftEntries ==
  { DynEntry("DT_INIT", 512, ""),
    DynEntry("DT_STRTAB", 256, ""),
    DynEntry("DT_PLTRELSZ", 512, ""),
    DynEntry("DT_RELAENT", 24, ""),
    DynEntry("DT_SONAME", 600, ""),
    DynamicEntryArray("DT_INIT_ARRAY", 512, << 528, MinusOne64, 0 >>),
    DynamicEntryArray("DT_FINI_ARRAY", 256, << MinusOne32, HighAddress32, 256 >>),
    DynEntry(DT_NULL, 0, "") }

ShiftTables == {<< a, b >> : a \in ShiftEntries, b \in ShiftEntries}

ShiftFroms == {0, 512}
ShiftBys == {16}

InitShift ==
  /\ type_ \in {"ELFCLASS32", "ELFCLASS64"}
  /\ dynamic_entries_ \in ShiftTables
  /\ dynamic_symbols_ = <<>>
  /\ relocations_ = <<>>
  /\ symbol_version_table_ = <<>>
  /\ LayoutIdle
  /\ PeIdle
  /\ last_op = Op("load", [from |-> 0, shift |-> 0], "none", 0)

\* Binary::shift_dynamic_entries(from, shift), applied once to the table
ShiftDynamicEntries(from, shift) ==
  /\ last_op.op = "load"
  /\ dynamic_entries_' = shift_dynamic_entries(dynamic_entries_, from, shift, type_)
  /\ last_op' = Op("shift_dynamic_entries", [from |-> from, shift |-> shift],
                   "none", 0)
  /\ UNCHANGED <<symVars, layoutVars, peVars>>

NextShift ==
  \E from \in ShiftFroms, shift \in ShiftBys : ShiftDynamicEntries(from, shift)

SpecShift == InitShift /\ [][NextShift]_vars

\* the element, read as a signed integer at the word width of the binary
SignedAtWordWidth(x) ==
  IF type_ = "ELFCLASS32" THEN int32_t(x) ELSE int64_t(x)

\* the tags of which the data model says that their value is an address
DataModelAddressTags ==
  {"DT_PLTGOT", "DT_HASH", "DT_GNU_HASH", "DT_STRTAB", "DT_SYMTAB", "DT_RELA",
   "DT_REL", "DT_JMPREL", "DT_INIT", "DT_FINI", "DT_VERSYM", "DT_VERDEF",
   "DT_VERNEED", "DT_PLTRELSZ", "DT_RELASZ", "DT_RELAENT", "DT_RELSZ",
   "DT_RELENT"}

\* the size of a table and the size of its elements
SizeTags == {"DT_PLTRELSZ", "DT_RELASZ", "DT_RELAENT", "DT_RELSZ", "DT_RELENT"}

\* the step from entries to entries': the value of an entry of a tag of
\* tags is moved when it is >= from, an element of an array is moved when
\* it is >= from and positive, and the entries of other tags are unchanged
ShiftsExactly(tags) ==
  LET from == last_op'.arg.from
      by == last_op'.arg.shift
  IN /\ Len(dynamic_entries_') = Len(dynamic_entries_)
     /\ \A i \in 1..Len(dynamic_entries_) :
          LET old == dynamic_entries_[i]
              new == dynamic_entries_'[i]
          IN IF old.tag \in tags
               THEN new = [old EXCEPT !.value = IF @ >= from THEN @ + by ELSE @]
             ELSE IF old.tag \in ArrayTags
               THEN /\ new.tag = old.tag
                    /\ Len(new.array) = Len(old.array)
                    /\ \A k \in 1..Len(old.array) :
                         new.array[k] =
                           IF old.array[k] >= from /\ SignedAtWordWidth(old.array[k]) > 0
                             THEN U64(old.array[k] + by)
                             ELSE old.array[k]
             ELSE new = old

\* C21 as stated: shift_dynamic_entries(from, by) adds by to the value of
\* every dynamic entry whose value is >= from and whose tag is one of the
\* address-valued tags of the data model, DT_PLTRELSZ, DT_RELASZ,
\* DT_RELAENT, DT_RELSZ and DT_RELENT among them; it adds by to an element
\* >= from of an array entry only when the element, read as a signed
\* integer at the word width of the binary, is positive; every entry with
\* another tag is unchanged.
C21_ShiftsDataModelAddressTags ==
  [][last_op'.op = "shift_dynamic_entries"
       => ShiftsExactly(DataModelAddressTags)]_vars

\* C21 (amended): as above for the tags of the data model's list that
\* hold an address; the entries of DT_PLTRELSZ, DT_RELASZ, DT_RELAENT,
\* DT_RELSZ and DT_RELENT, which hold a size, are unchanged like the
\* entries of any other tag.
C21_ShiftsAddressTagsOnly ==
  [][last_op'.op = "shift_dynamic_entries"
       => ShiftsExactly(DataModelAddressTags \ SizeTags)]_vars

\* a 32-bit table has been shifted from 0: the 32-bit sentinel and the
\* address with bit 31 set are where they were, the address 256 has moved,
\* and DT_PLTRELSZ has kept its value
C21_Witness ==
  /\ last_op.op = "shift_dynamic_entries"
  /\ last_op.arg.from = 0
  /\ type_ = "ELFCLASS32"
  /\ dynamic_entries_[1] = DynEntry("DT_PLTRELSZ", 512, "")
  /\ dynamic_entries_[2].tag = "DT_FINI_ARRAY"
  /\ dynamic_entries_[2].array = << MinusOne32, HighAddress32, 256 + 16 >>

----------------------------------------------------------------------------
(* ELF: the strategies of relocate_phdr_table, one by one                  *)

\* a step in which relocate_phdr_table_pie works on a table that is not
\* yet relocated: the binary is ET_DYN, so that it is the first strategy
PieRelocation ==
  /\ phdr_reloc_info_.new_offset = 0
  /\ header_.file_type = "ET_DYN"
  /\ last_op'.op = "relocate_phdr_table"
  /\ LastStrategy(last_op') = "pie"

\* the end of the program-header table, where the PIE strategy makes its hole
PieFrom == header_.program_headers_offset + phdr_size(type_) * Len(segments_)

\* the part of C22 on the cascade of the shift: what is at or after from
\* moves by 0x1000, what is before from stays; a segment lies before from
\* when its file range ends before from
PieCascade ==
  LET from == PieFrom
      moved(v) == IF v >= from THEN v + PieShift ELSE v
  IN /\ Len(sections_') = Len(sections_)
     /\ \A i \in 1..Len(sections_) :
          /\ sections_'[i].file_offset = moved(sections_[i].file_offset)
          /\ sections_[i].file_offset < from => sections_'[i] = sections_[i]
     /\ Len(segments_') = Len(segments_)
     /\ \A i \in 1..Len(segments_) :
          /\ segments_'[i].file_offset = moved(segments_[i].file_offset)
          /\ segments_[i].file_offset + segments_[i].physical_size < from
               => segments_'[i] = segments_[i]
     /\ Len(dynamic_entries_') = Len(dynamic_entries_)
     /\ \A i \in 1..Len(dynamic_entries_) :
          dynamic_entries_'[i].value =
            IF AddressValued(dynamic_entries_[i])
              THEN moved(dynamic_entries_[i].value)
              ELSE dynamic_entries_[i].value
     /\ Len(dynamic_symbols_') = Len(dynamic_symbols_)
     /\ \A i \in 1..Len(dynamic_symbols_) :
          dynamic_symbols_'[i].value = moved(dynamic_symbols_[i].value)
     /\ header_'.section_headers_offset = header_.section_headers_offset + PieShift
     /\ header_'.entrypoint = moved(header_.entrypoint)

\* C22: for an ET_DYN binary whose table is not yet relocated,
\* relocate_phdr_table_pie inserts a hole of 0x1000 bytes at from =
\* program_headers_offset + phdr_size * number of segments and makes that
\* region the new table position: it is the offset recorded, the offset
\* returned and the offset of the header; sections and segments with
\* file_offset >= from, address-valued dynamic entries and symbol values
\* >= from and section_headers_offset are increased by 0x1000, the
\* entrypoint is increased if and only if it was >= from, and what lies
\* before from is unchanged.
C22_PieHoleBecomesTable ==
  [][PieRelocation =>
       /\ phdr_reloc_info_'.new_offset = PieFrom
       /\ last_op'.ret = PieFrom
       /\ header_'.program_headers_offset = PieFrom
       /\ PieCascade]_vars

\* a step in which relocate_phdr_table_v1 works on a table that is not
\* yet relocated: the binary is not ET_DYN, so that it is the first strategy
V1Attempt ==
  /\ phdr_reloc_info_.new_offset = 0
  /\ header_.file_type # "ET_DYN"
  /\ last_op'.op = "relocate_phdr_table"

\* the strategy returned an offset
V1Succeeded == last_op'.arg.tried[1].ret # 0

\* the positions in load_seg of the earlier members of the pairs of
\* adjacent LOAD segments whose earlier member is not bss-like
V1Pairs ==
  LET loads == load_seg(segments_)
  IN {k \in 1..(Len(loads) - 1) :
        segments_[loads[k]].virtual_size = segments_[loads[k]].physical_size}

\* the bytes of the file between the LOAD segment at position k and the next
FileGap(k) ==
  LET loads == load_seg(segments_)
  IN U64(segments_[loads[k + 1]].file_offset
           - (segments_[loads[k]].file_offset + segments_[loads[k]].physical_size))

\* the first pair with the largest gap
V1Best == Min({k \in V1Pairs : \A j \in V1Pairs : FileGap(j) <= FileGap(k)})

\* C23: among the pairs of adjacent LOAD segments whose earlier member is
\* not bss-like, relocate_phdr_table_v1 selects the pair with the largest
\* file gap, extends the earlier segment's physical and virtual size by
\* that gap, and places the new program-header table at the former end of
\* that segment; it succeeds whenever such a pair offers at least 2 free
\* program-header slots and otherwise falls through to the next strategy.
C23_V1FillsLargestGap ==
  [][V1Attempt =>
       LET offers == /\ V1Pairs # {}
                     /\ FileGap(V1Best) \div phdr_size(type_) >= MIN_POTENTIAL_SIZE
           earlier == load_seg(segments_)[V1Best]
           former_end == segments_[earlier].file_offset
                           + segments_[earlier].physical_size
       IN /\ V1Succeeded <=> offers
          /\ V1Succeeded =>
               /\ segments_'[earlier].physical_size
                    = segments_[earlier].physical_size + FileGap(V1Best)
               /\ segments_'[earlier].virtual_size
                    = segments_[earlier].virtual_size + FileGap(V1Best)
               /\ header_'.program_headers_offset = former_end
               /\ last_op'.ret = former_end
          /\ ~V1Succeeded =>
               /\ Len(last_op'.arg.tried) = 2
               /\ last_op'.arg.tried[2].strategy = "v2"]_vars

\* a step in which relocate_phdr_table_v2 runs on a table that is not yet
\* relocated: the binary is not ET_DYN and v1 has returned 0 and has left
\* the binary as it was
V2Call ==
  /\ phdr_reloc_info_.new_offset = 0
  /\ header_.file_type # "ET_DYN"
  /\ last_op'.op = "relocate_phdr_table"
  /\ LastStrategy(last_op') = "v2"
  /\ relocate_phdr_table_v1(ThisBinary, type_).b = ThisBinary

\* the bss-like PT_LOAD segments, as indices
BssLike ==
  {i \in 1..Len(segments_) :
     /\ segments_[i].type = "PT_LOAD"
     /\ segments_[i].physical_size < segments_[i].virtual_size}

\* segments_' is segments_ with the segment at j added, the segment at
\* bss expanded to its virtual size and the first PT_PHDR segment, if there
\* is one, at the offset and the address of the added segment, zeroed
V2Segments(j, bss) ==
  LET others == RemoveAt(segments_', j)
      added == segments_'[j]
      P(x) == x.type = "PT_PHDR"
      phdr == FindIf(segments_, P)
  IN /\ Len(others) = Len(segments_)
     /\ \A i \in 1..Len(segments_) :
          others[i] =
            IF i = bss
              THEN [segments_[i] EXCEPT !.physical_size = segments_[i].virtual_size]
            ELSE IF i = phdr
              THEN [segments_[i] EXCEPT
                      !.file_offset = added.file_offset,
                      !.virtual_address = added.virtual_address,
                      !.physical_address = added.physical_address,
                      !.content = "zeros"]
            ELSE segments_[i]

\* C24: when exactly one LOAD segment is bss-like and the table is not yet
\* relocated, relocate_phdr_table_v2 sets that segment's physical_size to
\* its virtual_size, sets program_headers_offset to that segment's
\* file_offset + virtual_size, adds exactly one new LOAD segment at that
\* offset with physical_size = virtual_size = (numberof_segments before
\* the call + 1 + 10) * phdr_size, flags R and alignment 0x1000, records 10
\* free slots, and repoints an existing PT_PHDR segment to the new table
\* with zeroed content; when the number of bss-like LOAD segments is not
\* exactly one it fails without changing any state.
C24_V2AppendsTableSegment ==
  [][V2Call =>
       IF Cardinality(BssLike) = 1
         THEN LET bss == CHOOSE i \in BssLike : TRUE
                  new_offset == segments_[bss].file_offset
                                  + segments_[bss].virtual_size
                  size == (header_.numberof_segments + 1 + 10) * phdr_size(type_)
              IN /\ last_op'.ret = new_offset
                 /\ header_'.program_headers_offset = new_offset
                 /\ phdr_reloc_info_'.nb_segments = 10
                 /\ header_'.numberof_segments = header_.numberof_segments + 1
                 /\ \E j \in 1..Len(segments_') :
                      /\ segments_'[j].type = "PT_LOAD"
                      /\ segments_'[j].file_offset = new_offset
                      /\ segments_'[j].physical_size = size
                      /\ segments_'[j].virtual_size = size
                      /\ segments_'[j].flags = "PF_R"
                      /\ segments_'[j].alignment = 4096
                      /\ V2Segments(j, bss)
         ELSE /\ last_op'.ret = 0
              /\ UNCHANGED <<sections_, segments_, header_, phdr_reloc_info_,
                             dynamic_entries_, dynamic_symbols_>>]_vars

\* v2 has relocated the table of the executable whose bss-like PT_LOAD
\* is followed by another PT_LOAD: the bss-like segment is expanded and
\* the PT_PHDR segment is at the added segment
C24_Witness ==
  /\ last_op.op = "relocate_phdr_table"
  /\ LastStrategy(last_op) = "v2"
  /\ last_op.arg.tried[1].ret = 0
  /\ edit_calls_ = 0
  /\ Len(segments_) = 5
  /\ segments_[3].physical_size = 384
  /\ segments_[5].flags = "PF_R"
  /\ segments_[5].file_offset = 512 + 384
  /\ segments_[1].type = "PT_PHDR"
  /\ segments_[1].file_offset = segments_[5].file_offset
  /\ segments_[1].content = "zeros"
  /\ header_.program_headers_offset = segments_[5].file_offset
  /\ phdr_reloc_info_ = [new_offset |-> 512 + 384, nb_segments |-> USER_SEGMENTS]

----------------------------------------------------------------------------
(* PE Binary::authentihash: the section bodies                             *)

\* a section as the loop over the bodies sees it: pointerto_raw_data,
\* sizeof_raw_data, and the sizes of content() and of padding()
HashSection(id, offset, size, content, padding) ==
  [PeSection(id, ".s", {}, offset, size, 0, 0) EXCEPT
     !.content = content, !.padding = padding]

\* sizeof_raw_data, content size and padding size of the sections below:
\* a long section, a short one, sections with padding, and a section
\* without raw data
BodyShapes ==
  { [size |-> 8, content |-> 8, padding |-> 0],
    [size |-> 1, content |-> 1, padding |-> 0],
    [size |-> 2, content |-> 2, padding |-> 2],
    [size |-> 4, content |-> 4, padding |-> 1],
    [size |-> 0, content |-> 2, padding |-> 0] }

BodyOffsets == {0, 2, 4}

\* section tables of three sections with raw data at different offsets,
\* in any order of the table
BodyTables ==
  { << HashSection(1, o[1], p[1].size, p[1].content, p[1].padding),
       HashSection(2, o[2], p[2].size, p[2].content, p[2].padding),
       HashSection(3, o[3], p[3].size, p[3].content, p[3].padding) >> :
      o \in {f \in [1..3 -> BodyOffsets] : f[1] # f[2] /\ f[1] # f[3] /\ f[2] # f[3]},
      p \in [1..3 -> BodyShapes] }

InitBodies ==
  /\ pe_type_ = "PE32"
  /\ dos_header_ = [addressof_new_exeheader |-> DefaultLfanew]
  /\ pe_header_ = [numberof_sections |-> 3]
  /\ optional_header_ = <<>>
  /\ data_directories_ = <<>>
  /\ pe_sections_ \in BodyTables
  /\ available_sections_space_ = 0
  /\ allocated_sections_ = 3
  /\ overlay_ = <<>>
  /\ overlay_offset_ = 0
  /\ ElfIdle
  /\ last_op = Op("load", 0, "none", <<>>)

\* the section bodies of Binary::authentihash, computed once
AuthentihashSections ==
  /\ last_op.op = "load"
  /\ last_op' = Op("authentihash", 0, "none", authentihash_sections(pe_sections_))
  /\ UNCHANGED <<peVars, dynamic_entries_, symVars, layoutVars>>

NextBodies == AuthentihashSections

SpecBodies == InitBodies /\ [][NextBodies]_vars

\* the file offsets of a chunk, and of the body of the section at i
Covered(chunk) == chunk.from .. (chunk.to - 1)

BodyOf(i) ==
  pe_sections_[i].offset ..
    (pe_sections_[i].offset + pe_sections_[i].content + pe_sections_[i].padding - 1)

\* the sections with raw data
WithRawData == {i \in 1..Len(pe_sections_) : pe_sections_[i].size # 0}

\* C25: the section bodies enter the hashed stream in ascending
\* pointerto_raw_data order, each as its content followed by its padding;
\* sections with sizeof_raw_data = 0 are skipped; of a section that
\* overlaps what is already emitted only the tail is emitted, so that no
\* file offset covered by section bodies is emitted twice: the chunks are
\* ascending and pairwise disjoint, they lie in the bodies of the sections
\* with raw data, and a section with raw data that overlaps no other one
\* is emitted whole.
C25_BodiesEmittedOnce ==
  last_op.op = "authentihash" =>
    LET chunks == last_op.ret
    IN /\ \A j, k \in 1..Len(chunks) :
            j < k => /\ chunks[j].from <= chunks[k].from
                     /\ Covered(chunks[j]) \cap Covered(chunks[k]) = {}
       /\ UNION {Covered(chunks[j]) : j \in 1..Len(chunks)}
            \subseteq UNION {BodyOf(i) : i \in WithRawData}
       /\ \A i \in WithRawData :
            (\A n \in WithRawData \ {i} : BodyOf(i) \cap BodyOf(n) = {})
              => \E j \in 1..Len(chunks) : Covered(chunks[j]) = BodyOf(i)

\* the binary as relocate_phdr_table_v1 leaves it
AfterV1 == relocate_phdr_table_v1(ThisBinary, type_).b

\* C26: when relocate_phdr_table_v1 reports failure (returns 0),
\* header.program_headers_offset and phdr_reloc_info_ (new_offset and
\* nb_segments) have the values they had before the call, so that the v2
\* strategy tried next performs its own relocation: it returns the end of
\* the expanded bss-like segment when there is exactly one, and 0 otherwise.
C26_V1FailureLeavesNoTrace ==
  [][V1Attempt /\ ~V1Succeeded =>
       /\ AfterV1.header.program_headers_offset = header_.program_headers_offset
       /\ AfterV1.reloc = phdr_reloc_info_
       /\ last_op'.arg.tried[2].ret =
            IF Cardinality(BssLike) = 1
              THEN LET bss == CHOOSE i \in BssLike : TRUE
                   IN segments_[bss].file_offset + segments_[bss].virtual_size
              ELSE 0]_vars

\* a call of relocate_phdr_table that follows a call that returned an offset
RelocatedAgain ==
  /\ last_op.op = "relocate_phdr_table"
  /\ last_op.ret # 0
  /\ last_op'.op = "relocate_phdr_table"

\* C27: relocating the program-header table is idempotent: once a
\* relocation has succeeded, a further call to relocate_phdr_table changes
\* no section, segment, header, dynamic-entry or symbol state, inserts no
\* further hole, and returns the same offset as the call that performed
\* the relocation.
C27_RelocationIdempotent ==
  [][RelocatedAgain =>
       /\ UNCHANGED <<sections_, segments_, header_, phdr_reloc_info_,
                      dynamic_entries_, dynamic_symbols_>>
       /\ last_op'.ret = last_op.ret]_vars

----------------------------------------------------------------------------
(* ELF Binary::remove(const Segment&) and Binary::replace                  *)

\* getpagesize()
PageSize == 4096

\* Segment::operator== on the fields of the model
ElfSegmentEq(a, b) == a = b

\* Binary::last_offset_section
last_offset_section(sections) ==
  Max({0} \cup {sections[i].file_offset + sections[i].size : i \in 1..Len(sections)})

\* Binary::last_offset_segment
last_offset_segment(segments) ==
  Max({0} \cup {segments[i].file_offset + segments[i].physical_size :
                  i \in 1..Len(segments)})

\* the segment is erased and the header keeps its count
remove_segment_keeping_count(b, i) ==
  [b EXCEPT !.segments = RemoveAt(@, i)]

\* Binary::remove(const Segment&) of the segment found at index i
remove_segment(b, i) ==
  [b EXCEPT
     !.reloc.nb_segments = IF b.reloc.new_offset > 0 THEN @ + 1 ELSE @,
     !.header.numberof_segments = @ - 1,
     !.segments = RemoveAt(@, i)]

\* Binary::replace(new_segment, original_segment, base) with the original
\* found at index i, base # 0, and content_size bytes in new_segment
replace(b, new_segment, content_size, i, base) ==
  LET last_offset == Max({last_offset_section(b.sections),
                          last_offset_segment(b.segments)})
      last_offset_aligned == align(last_offset, PageSize)
      va == IF new_segment.virtual_address = 0
              THEN U64(base + last_offset_aligned)
              ELSE new_segment.virtual_address
      segmentsize == align(content_size, PageSize)
      new_segment_ptr ==
        [new_segment EXCEPT
           !.file_offset = last_offset_aligned,
           !.virtual_address = va,
           !.physical_address = va,
           !.physical_size = segmentsize,
           !.virtual_size = segmentsize,
           !.alignment = IF @ = 0 THEN PageSize ELSE @,
           !.content = "data"]
      P(x) == x.type = "PT_PHDR"
      ip == FindIf(b.segments, P)
      zeroed == IF ip > Len(b.segments) THEN b.segments
                ELSE [b.segments EXCEPT ![ip].content = "zeros"]
  IN [b EXCEPT
        !.segments = Append(RemoveAt(zeroed, i), new_segment_ptr),
        !.header.section_headers_offset = last_offset_aligned + segmentsize]

\* the segments a caller passes to replace: a PT_LOAD without and with an
\* address of its own, and a PT_NOTE
NewSegments ==
  { ElfSegment("PT_LOAD", 0, 0, 0, 0),
    ElfSegment("PT_LOAD", 0, 0, ExecBase + 65536, 0),
    ElfSegment("PT_NOTE", 0, 0, 0, 0) }

\* the number of bytes of content of the segment passed to replace
ContentSizes == {0, 100}

\* a segment that is not in the binary
AbsentSegment == ElfSegment("PT_GNU_STACK", 0, 0, 0, 0)

\* the segments passed to remove and as original_segment to replace
SegmentArguments == Range(segments_) \cup {AbsentSegment}

\* Binary::remove(const Segment&)
RemoveSegment(segment) ==
  /\ edit_calls_ < MaxEditCalls
  /\ edit_calls_' = edit_calls_ + 1
  /\ LET P(x) == ElfSegmentEq(x, segment)
         i == FindIf(segments_, P)
     IN IF i > Len(segments_)
          THEN /\ last_op' = Op("remove_segment", [index |-> i], "not_found", 0)
               /\ UNCHANGED <<sections_, segments_, header_, phdr_reloc_info_,
                              dynamic_entries_, dynamic_symbols_>>
          ELSE /\ Becomes(remove_segment(ThisBinary, i))
               /\ last_op' = Op("remove_segment", [index |-> i], "none", 0)
  /\ UNCHANGED <<relocations_, symbol_version_table_, type_>>

\* Binary::replace(new_segment, original_segment, base)
ReplaceSegment(new_segment, content_size, original_segment) ==
  /\ edit_calls_ < MaxEditCalls
  /\ edit_calls_' = edit_calls_ + 1
  /\ LET P(x) == ElfSegmentEq(x, original_segment)
         i == FindIf(segments_, P)
     IN IF i > Len(segments_)
          THEN /\ last_op' = Op("replace", [index |-> i], "not_found", 0)
               /\ UNCHANGED <<sections_, segments_, header_, phdr_reloc_info_,
                              dynamic_entries_, dynamic_symbols_>>
          ELSE /\ Becomes(replace(ThisBinary, new_segment, content_size, i, ExecBase))
               /\ last_op' = Op("replace", [index |-> i], "none", 0)
  /\ UNCHANGED <<relocations_, symbol_version_table_, type_>>

NextSeg ==
  \/ \E segment \in SegmentArguments : RemoveSegment(segment) /\ UNCHANGED peVars
  \/ \E new_segment \in NewSegments, n \in ContentSizes,
        original_segment \in SegmentArguments :
       ReplaceSegment(new_segment, n, original_segment) /\ UNCHANGED peVars
  \/ RelocatePhdrTable /\ UNCHANGED peVars

SpecSeg == InitElf /\ [][NextSeg]_vars

\* C28: starting from a binary whose header.numberof_segments equals the
\* number of elements of segments(), the equality holds after any sequence
\* of remove(Segment), replace(new_segment, original_segment) and
\* program-header-table relocations.
C28_SegmentCountCoherent ==
  header_.numberof_segments = Len(segments_)

\* the table has been relocated by v2, which added a segment, a segment
\* has been removed and another one replaced
C28_Witness ==
  /\ last_op.op = "replace"
  /\ last_op.err = "none"
  /\ edit_calls_ = 2
  /\ phdr_reloc_info_.nb_segments = USER_SEGMENTS + 1
  /\ segments_[Len(segments_)].file_offset = 4096

----------------------------------------------------------------------------
(* ELF dynamic symbols and their versions: add, remove, permute            *)

\* std::swap of the elements at i and j
Swap(s, i, j) == [s EXCEPT ![i] = s[j], ![j] = s[i]]

\* Symbol::has_version
has_version(sym) == sym.ver # 0

\* Binary::permute_dynamic_symbols: the loop from index i on (indices from
\* 1); undefined records a std::swap on symbol_version_table_ beyond its end
RECURSIVE permute_from(_, _, _, _)
permute_from(r, permutation, i, done) ==
  IF i > Len(permutation) THEN r
  ELSE LET j == permutation[i]
           both == has_version(r.syms[i]) /\ has_version(r.syms[j])
           none == ~has_version(r.syms[i]) /\ ~has_version(r.syms[j])
           inside == i <= Len(r.table) /\ j <= Len(r.table)
       IN IF j = i \/ j \in done
            THEN permute_from(r, permutation, i + 1, done)
          ELSE IF both
            THEN permute_from(
                   [syms |-> Swap(r.syms, i, j),
                    table |-> IF inside THEN Swap(r.table, i, j) ELSE r.table,
                    undefined |-> r.undefined \/ ~inside],
                   permutation, i + 1, done \cup {i, j})
          ELSE IF none
            THEN permute_from([r EXCEPT !.syms = Swap(r.syms, i, j)],
                              permutation, i + 1, done \cup {i, j})
          ELSE permute_from(r, permutation, i + 1, done)

\* Binary::permute_dynamic_symbols
permute_dynamic_symbols(syms, table, permutation) ==
  permute_from([syms |-> syms, table |-> table, undefined |-> FALSE],
               permutation, 1, {})

\* the permutations of the indices of n symbols
IndexPermutations(n) ==
  {f \in [1..n -> 1..n] : \A a, b \in 1..n : f[a] = f[b] => a = b}

PermuteDynamicSymbols(permutation) ==
  LET r == permute_dynamic_symbols(dynamic_symbols_, symbol_version_table_,
                                   permutation)
  IN /\ dynamic_symbols_' = r.syms
     \* a swap beyond the end of the table: undefined behaviour
     /\ symbol_version_table_' \in
          (IF r.undefined
             THEN {r.table, SubSeq(r.table, 1, Len(r.table) - 1)}
             ELSE {r.table})
     /\ last_op' = Op("permute_dynamic_symbols", [name |-> "", id |-> 0],
                      IF r.undefined THEN "undefined" ELSE "none", 0)
     /\ UNCHANGED <<dynamic_entries_, relocations_, type_>>

NextVer ==
  \/ \E x \in SymInputs :
       AddDynamicSymbol(x[1], x[2]) /\ UNCHANGED <<layoutVars, peVars>>
  \/ \E k \in 1..MaxSyms :
       RemoveDynamicSymbol(k) /\ UNCHANGED <<layoutVars, peVars>>
  \/ \E permutation \in IndexPermutations(Len(dynamic_symbols_)) :
       PermuteDynamicSymbols(permutation) /\ UNCHANGED <<layoutVars, peVars>>

SpecVer == InitSym /\ [][NextVer]_vars

\* the version records of the dynamic symbols that have one, in the order
\* of the symbols
RECURSIVE VersionsOf(_)
VersionsOf(syms) ==
  IF syms = <<>> THEN <<>>
  ELSE (IF has_version(Head(syms)) THEN << Head(syms).ver >> ELSE <<>>)
         \o VersionsOf(Tail(syms))

\* C29: after any sequence of add_dynamic_symbol, remove_dynamic_symbol
\* and permute_dynamic_symbols calls, the symbol-version table contains
\* exactly the version records of the current dynamic symbols: one record
\* per dynamic symbol that has a version, no record of a removed symbol,
\* no record twice, and the records in the order of their symbols.
C29_VersionTableFollowsSymbols ==
  symbol_version_table_ = VersionsOf(dynamic_symbols_)

----------------------------------------------------------------------------
(* ELF relocate_phdr_table_v1: the count of free program-header slots      *)

\* the chosen gap holds fewer program headers than the binary already has
GapTooSmall ==
  /\ V1Pairs # {}
  /\ FileGap(V1Best) \div phdr_size(type_) < header_.numberof_segments

\* C30: the free-slot count (gap / phdr_size) - numberof_segments, computed
\* in unsigned arithmetic, never wraps around: whenever the chosen gap holds
\* fewer program headers than the binary already has,
\* relocate_phdr_table_v1 fails instead of recording a huge slot count in
\* phdr_reloc_info_.nb_segments and reporting success.
C30_V1SlotCountNeverWraps ==
  [][V1Attempt /\ GapTooSmall =>
       /\ ~V1Succeeded
       /\ AfterV1.reloc.nb_segments
            <= FileGap(V1Best) \div phdr_size(type_)]_vars

====
